---- MODULE Spec2Model ----
(***************************************************************************)
(* Model of linkml_scan/linkml_scan.py: the forward-only $ref pruner.      *)
(*                                                                         *)
(* Strings are sequences of one-character strings, so that startswith and  *)
(* slicing are computed and not assumed.  A JSON value is a tagged record; *)
(* a JSON object is a function from keys to values (Python dict equality   *)
(* ignores insertion order, and so does function equality).                *)
(***************************************************************************)
EXTENDS Integers, Sequences, FiniteSets, TLC

(***************************************************************************)
(* JSON values                                                             *)
(***************************************************************************)
NoMap == <<>>

JStr(str) == [tag |-> "str", s |-> str, m |-> NoMap, items |-> <<>>, n |-> 0]

JNum(k) == [tag |-> "num", s |-> <<>>, m |-> NoMap, items |-> <<>>, n |-> k]

JObj(f) == [tag |-> "obj", s |-> <<>>, m |-> f, items |-> <<>>, n |-> 0]

JList(l) == [tag |-> "list", s |-> <<>>, m |-> NoMap, items |-> l, n |-> 0]

\* what a path holds before the file exists / a name holds before assignment
Absent == [tag |-> "absent", s |-> <<>>, m |-> NoMap, items |-> <<>>, n |-> 0]

EmptyObj == JObj(NoMap)

(***************************************************************************)
(* String constants of the program                                         *)
(***************************************************************************)
\* "$defs"
DEFS_KEY == <<"$", "d", "e", "f", "s">>

\* "$ref"
REF_KEY == <<"$", "r", "e", "f">>

\* prefix = "#/$defs/"
prefix == <<"#", "/", "$", "d", "e", "f", "s", "/">>

\* "#/$defs/REMOVED_REFERENCE"
REMOVED_REFERENCE ==
    prefix \o <<"R", "E", "M", "O", "V", "E", "D", "_",
                "R", "E", "F", "E", "R", "E", "N", "C", "E">>

(***************************************************************************)
(* extract_def_name: the value None is [some |-> FALSE]                    *)
(***************************************************************************)
None == [some |-> FALSE, name |-> <<>>]

Some(str) == [some |-> TRUE, name |-> str]

\* str.startswith
startswith(str, pre) ==
    /\ Len(str) >= Len(pre)
    /\ SubSeq(str, 1, Len(pre)) = pre

\* Python truthiness of an Optional[str]: None and "" are falsy
Truthy(r) == r.some /\ r.name # <<>>

\* extract_def_name accepting only a name without further path segments
extract_def_name_flat(ref_str) ==
    IF /\ ref_str.tag = "str"
       /\ startswith(ref_str.s, prefix)
       /\ \A i \in (Len(prefix) + 1)..Len(ref_str.s) : ref_str.s[i] # "/"
    THEN Some(SubSeq(ref_str.s, Len(prefix) + 1, Len(ref_str.s)))
    ELSE None

extract_def_name(ref_str) ==
    IF ref_str.tag = "str" /\ startswith(ref_str.s, prefix)
    THEN Some(SubSeq(ref_str.s, Len(prefix) + 1, Len(ref_str.s)))
    ELSE None

(***************************************************************************)
(* find_all_refs                                                           *)
(***************************************************************************)
\* find_all_refs without the elif branch for lists
RECURSIVE find_all_refs_no_list(_)
find_all_refs_no_list(schema_fragment) ==
    IF schema_fragment.tag = "obj"
    THEN LET own == IF /\ REF_KEY \in DOMAIN schema_fragment.m
                       /\ Truthy(extract_def_name(schema_fragment.m[REF_KEY]))
                    THEN {extract_def_name(schema_fragment.m[REF_KEY]).name}
                    ELSE {}
         IN  own \cup UNION {find_all_refs_no_list(schema_fragment.m[k]) :
                                k \in DOMAIN schema_fragment.m}
    ELSE {}

\* find_all_refs returning at once for an object that is a reference: its
\* sibling keys are not searched
RECURSIVE find_all_refs_ref_is_leaf(_)
find_all_refs_ref_is_leaf(schema_fragment) ==
    IF schema_fragment.tag = "obj"
    THEN IF /\ REF_KEY \in DOMAIN schema_fragment.m
            /\ Truthy(extract_def_name(schema_fragment.m[REF_KEY]))
         THEN {extract_def_name(schema_fragment.m[REF_KEY]).name}
         ELSE UNION {find_all_refs_ref_is_leaf(schema_fragment.m[k]) :
                        k \in DOMAIN schema_fragment.m}
    ELSE IF schema_fragment.tag = "list"
    THEN UNION {find_all_refs_ref_is_leaf(schema_fragment.items[i]) :
                   i \in 1..Len(schema_fragment.items)}
    ELSE {}

RECURSIVE find_all_refs(_)
find_all_refs(schema_fragment) ==
    IF schema_fragment.tag = "obj"
    THEN LET own == IF /\ REF_KEY \in DOMAIN schema_fragment.m
                       /\ Truthy(extract_def_name(schema_fragment.m[REF_KEY]))
                    THEN {extract_def_name(schema_fragment.m[REF_KEY]).name}
                    ELSE {}
         IN  own \cup UNION {find_all_refs(schema_fragment.m[k]) :
                                k \in DOMAIN schema_fragment.m}
    ELSE IF schema_fragment.tag = "list"
    THEN UNION {find_all_refs(schema_fragment.items[i]) :
                   i \in 1..Len(schema_fragment.items)}
    ELSE {}

(***************************************************************************)
(* prune_refs                                                              *)
(***************************************************************************)
\* prune_refs with the keep test inverted ("in" for "not in")
RECURSIVE prune_refs_inverted(_, _)
prune_refs_inverted(schema_fragment, keep_set) ==
    IF schema_fragment.tag = "obj"
    THEN JObj([k \in DOMAIN schema_fragment.m |->
                 IF k = REF_KEY
                 THEN LET def_name == extract_def_name(schema_fragment.m[k])
                      IN  IF Truthy(def_name) /\ def_name.name \in keep_set
                          THEN JStr(REMOVED_REFERENCE)
                          ELSE schema_fragment.m[k]
                 ELSE prune_refs_inverted(schema_fragment.m[k], keep_set)])
    ELSE IF schema_fragment.tag = "list"
    THEN JList([i \in 1..Len(schema_fragment.items) |->
                  prune_refs_inverted(schema_fragment.items[i], keep_set)])
    ELSE schema_fragment

\* prune_refs without the else branch of the dict loop: only "$ref" entries
\* reach new_frag
RECURSIVE prune_refs_refs_only(_, _)
prune_refs_refs_only(schema_fragment, keep_set) ==
    IF schema_fragment.tag = "obj"
    THEN JObj([k \in DOMAIN schema_fragment.m \cap {REF_KEY} |->
                 LET def_name == extract_def_name(schema_fragment.m[k])
                 IN  IF Truthy(def_name) /\ def_name.name \notin keep_set
                     THEN JStr(REMOVED_REFERENCE)
                     ELSE schema_fragment.m[k]])
    ELSE IF schema_fragment.tag = "list"
    THEN JList([i \in 1..Len(schema_fragment.items) |->
                  prune_refs_refs_only(schema_fragment.items[i], keep_set)])
    ELSE schema_fragment

RECURSIVE prune_refs(_, _)
prune_refs(schema_fragment, keep_set) ==
    IF schema_fragment.tag = "obj"
    THEN JObj([k \in DOMAIN schema_fragment.m |->
                 IF k = REF_KEY
                 THEN LET def_name == extract_def_name(schema_fragment.m[k])
                      IN  IF Truthy(def_name) /\ def_name.name \notin keep_set
                          THEN JStr(REMOVED_REFERENCE)
                          ELSE schema_fragment.m[k]
                 ELSE prune_refs(schema_fragment.m[k], keep_set)])
    ELSE IF schema_fragment.tag = "list"
    THEN JList([i \in 1..Len(schema_fragment.items) |->
                  prune_refs(schema_fragment.items[i], keep_set)])
    ELSE schema_fragment

(***************************************************************************)
(* Inputs: the schema files and root names the runs are checked on         *)
(***************************************************************************)
\* deepest list nesting of a reference in an input definition
MaxNest == 2

\* number of runs of the program, each later run reading the previous output
MaxRuns == 2

A == <<"A">>

B == <<"B">>

C == <<"C">>

\* a name that is never a key of $defs
Z == <<"Z">>

DefNames == {A, B, C}

RootNames == {A, B, Z}

Ptr(nm) == JStr(prefix \o nm)

\* "#/$defs/A/x": further path segments after the definition name
CompoundPtr == JStr(prefix \o <<"A", "/", "x">>)

\* "#/$defs/": the prefix and nothing else
BarePtr == JStr(prefix)

\* "x#/$defs/A": the prefix is not at the start
ExternalPtr == JStr(<<"x">> \o prefix \o A)

ITEMS_KEY == <<"i", "t", "e", "m", "s">>

TITLE_KEY == <<"t", "i", "t", "l", "e">>

PROPS_KEY == <<"p", "r", "o", "p", "s">>

Ref(p) == JObj(REF_KEY :> p)

\* a reference object with a sibling key that holds another reference
Two(p, q) == JObj((REF_KEY :> p) @@ (PROPS_KEY :> Ref(q)))

\* a reference k levels deep in lists of objects
RECURSIVE Nested(_, _)
Nested(p, k) ==
    IF k = 0 THEN Ref(p)
    ELSE JObj(ITEMS_KEY :> JList(<<JNum(5), Nested(p, k - 1)>>))

Bodies ==
    {EmptyObj, JNum(7)}
    \cup {Ref(Ptr(nm)) : nm \in DefNames \cup {Z}}
    \cup {Ref(BarePtr), Ref(CompoundPtr), Ref(ExternalPtr), Ref(JNum(5))}
    \cup {Two(Ptr(B), Ptr(C)), Two(Ptr(A), Ptr(Z))}
    \cup {Nested(Ptr(B), k) : k \in 1..MaxNest}
    \cup {Ref(Ref(Ptr(C))), Ref(JStr(REMOVED_REFERENCE))}

\* the top-level keys next to $defs; one of them holds a reference
Siblings == (TITLE_KEY :> JStr(<<"t">>)) @@ (PROPS_KEY :> Ref(Ptr(B)))

Documents ==
    {JObj(Siblings), EmptyObj}
    \cup {JObj(Siblings @@ (DEFS_KEY :> JObj(defs))) :
             defs \in UNION {[keys -> Bodies] : keys \in SUBSET DefNames}}

\* all orders in which a finite set can be iterated
Orders(S) ==
    {q \in [1..Cardinality(S) -> S] : \A x \in S : \E i \in DOMAIN q : q[i] = x}

(***************************************************************************)
(* State of a run of main()                                                *)
(***************************************************************************)
VARIABLES
    schema_file,      \* content of the file at sys.argv[1]
    target_def,       \* sys.argv[2]
    out_file,         \* content of the file at sys.argv[3], Absent if none
    pc,               \* position in main()
    full_schema,
    all_edges,
    adjacency,        \* defaultdict(set): a function, keys added on access
    reachable,
    queue,
    new_defs,
    minimized_schema,
    todo,             \* list(new_defs.keys()) not yet iterated in step 7
    printed,          \* the messages printed so far
    exit_code,        \* -1 while running
    queued,           \* every name ever put on the queue, in order
    expanded,         \* every name added to reachable, in order
    writes,           \* how many times out_file was opened for writing
    run

mainvars == <<schema_file, target_def, out_file, pc, full_schema, all_edges,
          adjacency, reachable, queue, new_defs, minimized_schema, todo,
          printed, exit_code, queued, expanded, writes, run>>

(***************************************************************************)
(* State of a direct call of find_all_refs and prune_refs on one value     *)
(***************************************************************************)
VARIABLES
    fn_pc,            \* which calls have returned
    fn_fragment,      \* the schema_fragment argument
    fn_keep,          \* the keep_set argument
    fn_found,         \* find_all_refs(fn_fragment)
    fn_pruned,        \* prune_refs(fn_fragment, fn_keep)
    fn_found_after    \* find_all_refs(fn_pruned)

fnvars == <<fn_pc, fn_fragment, fn_keep, fn_found, fn_pruned, fn_found_after>>

(***************************************************************************)
(* State of a run of js_deps_to_flat_file.py or java_deps_to_flat_file.py  *)
(***************************************************************************)
VARIABLES
    t_pc,             \* position in main() and in the traversal
    t_disk,           \* the files on disk: absolute path -> content
    t_config,         \* the loaded YAML configuration
    t_start_files,    \* abs_start_files, the start_files argument
    t_max_depth,      \* max_depth after its conversion
    t_visited,
    t_queue,
    t_all_files,
    t_exit_code       \* -1 while running

depsvars == <<t_pc, t_disk, t_config, t_start_files, t_max_depth, t_visited,
              t_queue, t_all_files, t_exit_code>>

\* what a step of main() leaves alone
\* repo_to_flat_file.py: a call of parse_file_ids
VARIABLES r_pc, r_files_arg, r_all_ids

idsvars == <<r_pc, r_files_arg, r_all_ids>>

\* repo_to_flat_file.py: a call of scan_repository; s_outcomes records what
\* became of each file the walk handed over
VARIABLES s_pc, s_disk, s_args, s_pending, s_root, s_files, s_file_map,
          s_current_id, s_total_tokens, s_index, s_outcomes

scanvars == <<s_pc, s_disk, s_args, s_pending, s_root, s_files, s_file_map,
              s_current_id, s_total_tokens, s_index, s_outcomes>>

\* repo_to_flat_file.py: a call of extract_files; x_sections records the ID
\* of each section put together, x_prints the warnings
VARIABLES x_pc, x_disk, x_args, x_id_to_path, x_selected_ids, x_todo,
          x_combined_content, x_output, x_sections, x_prints

extractvars == <<x_pc, x_disk, x_args, x_id_to_path, x_selected_ids, x_todo,
                 x_combined_content, x_output, x_sections, x_prints>>

flatvars == <<idsvars, scanvars, extractvars>>

others == <<fnvars, depsvars, flatvars>>

vars == <<mainvars, fnvars, depsvars, flatvars>>

\* no dependency scan is running
DepsIdle ==
    /\ t_pc = "off"
    /\ t_disk = <<>>
    /\ t_config = <<>>
    /\ t_start_files = <<>>
    /\ t_max_depth = <<>>
    /\ t_visited = {}
    /\ t_queue = <<>>
    /\ t_all_files = <<>>
    /\ t_exit_code = -1

\* no direct call is made
IdsIdle ==
    /\ r_pc = "off"
    /\ r_files_arg = <<>>
    /\ r_all_ids = <<>>

ScanIdle ==
    /\ s_pc = "off"
    /\ s_disk = <<>>
    /\ s_args = <<>>
    /\ s_pending = <<>>
    /\ s_root = <<>>
    /\ s_files = <<>>
    /\ s_file_map = <<>>
    /\ s_current_id = 0
    /\ s_total_tokens = 0
    /\ s_index = <<>>
    /\ s_outcomes = <<>>

NotWritten == [written |-> FALSE, text |-> <<>>]

ExtractIdle ==
    /\ x_pc = "off"
    /\ x_disk = <<>>
    /\ x_args = <<>>
    /\ x_id_to_path = <<>>
    /\ x_selected_ids = <<>>
    /\ x_todo = <<>>
    /\ x_combined_content = <<>>
    /\ x_output = NotWritten
    /\ x_sections = <<>>
    /\ x_prints = <<>>

FlatIdle == IdsIdle /\ ScanIdle /\ ExtractIdle

FnIdle ==
    /\ fn_pc = "off"
    /\ fn_fragment = Absent
    /\ fn_keep = {}
    /\ fn_found = {}
    /\ fn_pruned = Absent
    /\ fn_found_after = {}

locals == <<full_schema, all_edges, adjacency, reachable, queue, new_defs,
            minimized_schema, todo>>

Init ==
    /\ schema_file \in Documents
    /\ target_def \in RootNames
    /\ out_file = Absent
    /\ pc = "load"
    /\ full_schema = Absent
    /\ all_edges = {}
    /\ adjacency = NoMap
    /\ reachable = {}
    /\ queue = <<>>
    /\ new_defs = NoMap
    /\ minimized_schema = NoMap
    /\ todo = {}
    /\ printed = <<>>
    /\ exit_code = -1
    /\ queued = <<>>
    /\ expanded = <<>>
    /\ writes = 0
    /\ run = 1
    /\ FnIdle
    /\ DepsIdle
    /\ FlatIdle

defs_dict == full_schema.m[DEFS_KEY].m

(***************************************************************************)
(* main(), one action per step of the pipeline                             *)
(***************************************************************************)
\* 1) json.load of the schema file
Load ==
    /\ pc = "load"
    /\ full_schema' = schema_file
    /\ pc' = "check"
    /\ UNCHANGED <<schema_file, target_def, out_file, all_edges, adjacency,
                   reachable, queue, new_defs, minimized_schema, todo,
                   printed, exit_code, queued, expanded, writes, run>>
    /\ UNCHANGED others

\* the error path with sys.exit() called without a status
ExitNoDefs_status0 ==
    /\ pc = "check"
    /\ DEFS_KEY \notin DOMAIN full_schema.m
    /\ printed' = Append(printed, "error")
    /\ exit_code' = 0
    /\ pc' = "exit"
    /\ UNCHANGED <<schema_file, target_def, out_file, full_schema, all_edges,
                   adjacency, reachable, queue, new_defs, minimized_schema,
                   todo, queued, expanded, writes, run>>
    /\ UNCHANGED others

\* no top-level "$defs": print the error and sys.exit(1)
ExitNoDefs ==
    /\ pc = "check"
    /\ DEFS_KEY \notin DOMAIN full_schema.m
    /\ printed' = Append(printed, "error")
    /\ exit_code' = 1
    /\ pc' = "exit"
    /\ UNCHANGED <<schema_file, target_def, out_file, locals, queued, expanded, writes,
                   run>>
    /\ UNCHANGED others

\* the edges of one definition with the backward edge added as well
edges_of_both_ways(def_name, def_obj) ==
    {<<def_name, refd_name>> : refd_name \in find_all_refs(def_obj)}
    \cup {<<refd_name, def_name>> : refd_name \in find_all_refs(def_obj)}

\* the edges of one definition, as appended to all_edges
edges_of(def_name, def_obj) ==
    {<<def_name, refd_name>> : refd_name \in find_all_refs(def_obj)}

\* 2) the forward edges and 3) the adjacency built from them
BuildEdges ==
    /\ pc = "check"
    /\ DEFS_KEY \in DOMAIN full_schema.m
    /\ all_edges' = UNION {edges_of(d, defs_dict[d]) : d \in DOMAIN defs_dict}
    /\ adjacency' = [from_def \in {e[1] : e \in all_edges'} |->
                        {e[2] : e \in {x \in all_edges' : x[1] = from_def}}]
    /\ pc' = "search"
    /\ UNCHANGED <<schema_file, target_def, out_file, full_schema, reachable,
                   queue, new_defs, minimized_schema, todo, printed,
                   exit_code, queued, expanded, writes, run>>
    /\ UNCHANGED others

\* 4) the search starts from the root, with a warning if it is no definition
StartSearch ==
    /\ pc = "search"
    /\ reachable' = {}
    /\ queue' = <<target_def>>
    /\ queued' = <<target_def>>
    /\ expanded' = <<>>
    /\ printed' = IF target_def \notin DOMAIN defs_dict
                  THEN Append(printed, "warning")
                  ELSE printed
    /\ pc' = "bfs"
    /\ UNCHANGED <<schema_file, target_def, out_file, full_schema, all_edges,
                   adjacency, new_defs, minimized_schema, todo, exit_code,
                   writes, run>>
    /\ UNCHANGED others

\* defaultdict(set).__getitem__: the value, and the dict after the access
adjacency_get(adj, key) == IF key \in DOMAIN adj THEN adj[key] ELSE {}

adjacency_touch(adj, key) ==
    IF key \in DOMAIN adj THEN adj ELSE adj @@ (key :> {})

\* the inner loop testing "neighbor in adjacency" for "not in reachable"
to_append_known_sources(adj, reach, current) ==
    {neighbor \in adjacency_get(adj, current) : neighbor \in DOMAIN adj}

\* the inner loop without its "not in reachable" test
to_append_all(adj, reach, current) == adjacency_get(adj, current)

\* the names the inner loop appends for the popped name
to_append(adj, reach, current) ==
    {neighbor \in adjacency_get(adj, current) : neighbor \notin reach}

\* one iteration of the while loop: current is already reachable
BfsSkip ==
    /\ pc = "bfs"
    /\ queue # <<>>
    /\ Head(queue) \in reachable
    /\ queue' = Tail(queue)
    /\ UNCHANGED <<schema_file, target_def, out_file, pc, full_schema,
                   all_edges, adjacency, reachable, new_defs,
                   minimized_schema, todo, printed, exit_code, queued, expanded,
                   writes, run>>
    /\ UNCHANGED others

\* the loop body without the "if current in reachable: continue" test
BfsVisit_no_skip ==
    /\ pc = "bfs"
    /\ queue # <<>>
    /\ LET current == Head(queue) IN
        /\ reachable' = reachable \cup {current}
        /\ expanded' = Append(expanded, current)
        /\ adjacency' = adjacency_touch(adjacency, current)
        /\ \E order \in Orders(to_append(adjacency, reachable', current)) :
              /\ queue' = Tail(queue) \o order
              /\ queued' = queued \o order
    /\ UNCHANGED <<schema_file, target_def, out_file, pc, full_schema,
                   all_edges, new_defs, minimized_schema, todo, printed,
                   exit_code, writes, run>>
    /\ UNCHANGED others

\* one iteration of the while loop: current is new
BfsVisit ==
    /\ pc = "bfs"
    /\ queue # <<>>
    /\ Head(queue) \notin reachable
    /\ LET current == Head(queue) IN
        /\ reachable' = reachable \cup {current}
        /\ expanded' = Append(expanded, current)
        /\ adjacency' = adjacency_touch(adjacency, current)
        /\ \E order \in Orders(to_append(adjacency, reachable', current)) :
              /\ queue' = Tail(queue) \o order
              /\ queued' = queued \o order
    /\ UNCHANGED <<schema_file, target_def, out_file, pc, full_schema,
                   all_edges, new_defs, minimized_schema, todo, printed,
                   exit_code, writes, run>>
    /\ UNCHANGED others

\* step 5 testing "def_name in adjacency" built from all_edges: definitions
\* without outgoing references are lost
build_new_defs_with_edges(reach, defs) ==
    [def_name \in {d \in reach : d \in DOMAIN defs /\ find_all_refs(defs[d]) # {}}
        |-> defs[def_name]]

\* 5) the reachable definitions
build_new_defs(reach, defs) ==
    [def_name \in {d \in reach : d \in DOMAIN defs} |-> defs[def_name]]

\* step 6 without the else branch: only "$defs" is copied
build_minimized_defs_only(schema, defs) ==
    [k \in {DEFS_KEY} |-> JObj(defs)]

\* 6) the document with "$defs" replaced
build_minimized(schema, defs) ==
    [k \in DOMAIN schema.m |-> IF k = DEFS_KEY THEN JObj(defs) ELSE schema.m[k]]

\* steps 5 and 6 truncating the loaded "$defs" in place
BuildMinimized_in_place ==
    /\ pc = "bfs"
    /\ queue = <<>>
    /\ new_defs' = build_new_defs(reachable, defs_dict)
    /\ minimized_schema' = build_minimized(full_schema, new_defs')
    /\ full_schema' = JObj(minimized_schema')
    /\ todo' = DOMAIN new_defs'
    /\ pc' = "prune"
    /\ UNCHANGED <<schema_file, target_def, out_file, all_edges,
                   adjacency, reachable, queue, printed, exit_code, queued,
                   expanded, writes, run>>
    /\ UNCHANGED others

BuildMinimized ==
    /\ pc = "bfs"
    /\ queue = <<>>
    /\ new_defs' = build_new_defs(reachable, defs_dict)
    /\ minimized_schema' = build_minimized(full_schema, new_defs')
    /\ todo' = DOMAIN new_defs'
    /\ pc' = "prune"
    /\ UNCHANGED <<schema_file, target_def, out_file, full_schema, all_edges,
                   adjacency, reachable, queue, printed, exit_code, queued, expanded,
                   writes, run>>
    /\ UNCHANGED others

\* step 7 pruning against the keys of new_defs
prune_keep_set_new_defs(reach, defs) == DOMAIN defs

\* the set of names step 7 prunes against
prune_keep_set(reach, defs) == reach

\* 7) one iteration of the loop over list(new_defs.keys()); minimized_schema
\*    holds the same dict object as new_defs
PruneOne ==
    /\ pc = "prune"
    /\ \E def_name \in todo :
          /\ new_defs' = [new_defs EXCEPT ![def_name] =
                  prune_refs(new_defs[def_name],
                             prune_keep_set(reachable, new_defs))]
          /\ todo' = todo \ {def_name}
    /\ minimized_schema' = [minimized_schema EXCEPT ![DEFS_KEY] = JObj(new_defs')]
    /\ UNCHANGED <<schema_file, target_def, out_file, pc, full_schema,
                   all_edges, adjacency, reachable, queue, printed,
                   exit_code, queued, expanded, writes, run>>
    /\ UNCHANGED others

\* the write placed before the loop of step 7 has finished
WriteOut_early ==
    /\ pc = "prune"
    /\ out_file' = JObj(minimized_schema)
    /\ writes' = writes + 1
    /\ printed' = Append(printed, "done")
    /\ exit_code' = 0
    /\ pc' = "done"
    /\ UNCHANGED <<schema_file, target_def, locals, queued, expanded, run>>
    /\ UNCHANGED others

\* 8) json.dump of the minimized schema, the summary line, normal exit
WriteOut ==
    /\ pc = "prune"
    /\ todo = {}
    /\ out_file' = JObj(minimized_schema)
    /\ writes' = writes + 1
    /\ printed' = Append(printed, "done")
    /\ exit_code' = 0
    /\ pc' = "done"
    /\ UNCHANGED <<schema_file, target_def, locals, queued, expanded, run>>
    /\ UNCHANGED others

\* the program is run again on the file it wrote, with the same root
Rerun ==
    /\ pc = "done"
    /\ run < MaxRuns
    /\ schema_file' = out_file
    /\ out_file' = Absent
    /\ pc' = "load"
    /\ full_schema' = Absent
    /\ all_edges' = {}
    /\ adjacency' = NoMap
    /\ reachable' = {}
    /\ queue' = <<>>
    /\ new_defs' = NoMap
    /\ minimized_schema' = NoMap
    /\ todo' = {}
    /\ printed' = <<>>
    /\ exit_code' = -1
    /\ queued' = <<>>
    /\ expanded' = <<>>
    /\ writes' = 0
    /\ run' = run + 1
    /\ UNCHANGED target_def
    /\ UNCHANGED others

Next ==
    \/ Load
    \/ ExitNoDefs
    \/ BuildEdges
    \/ StartSearch
    \/ BfsSkip
    \/ BfsVisit
    \/ BuildMinimized
    \/ PruneOne
    \/ WriteOut
    \/ Rerun

Spec == Init /\ [][Next]_vars

\* the program is sequential: a run that can take a step takes it
FairSpec == Spec /\ WF_vars(Next)

(***************************************************************************)
(* Direct calls: find_all_refs and prune_refs applied to one value and one *)
(* keep set, then find_all_refs applied to the pruned value                *)
(***************************************************************************)
\* main() is not running
MainIdle ==
    /\ schema_file = Absent
    /\ target_def = <<>>
    /\ out_file = Absent
    /\ pc = "off"
    /\ full_schema = Absent
    /\ all_edges = {}
    /\ adjacency = NoMap
    /\ reachable = {}
    /\ queue = <<>>
    /\ new_defs = NoMap
    /\ minimized_schema = NoMap
    /\ todo = {}
    /\ printed = <<>>
    /\ exit_code = -1
    /\ queued = <<>>
    /\ expanded = <<>>
    /\ writes = 0
    /\ run = 1

\* the values the functions are called on: the definition bodies, and
\* values that are no object, hold a pointer under another key, or hold the
\* same reference twice
FnFragments ==
    Bodies
    \cup {Ptr(A), JList(<<>>), JList(<<Ref(Ptr(A)), Ref(Ptr(B)), Ptr(C)>>)}
    \cup {JObj(PROPS_KEY :> Ptr(A)), Two(Ptr(A), Ptr(A))}
    \cup {JObj((ITEMS_KEY :> JList(<<Ref(Ptr(C)), Ref(Ptr(C))>>))
               @@ (PROPS_KEY :> Two(Ptr(B), CompoundPtr)))}

KeepSets == SUBSET {A, B, C}

FnInit ==
    /\ MainIdle
    /\ DepsIdle
    /\ FlatIdle
    /\ fn_pc = "called"
    /\ fn_fragment \in FnFragments
    /\ fn_keep \in KeepSets
    /\ fn_found = {}
    /\ fn_pruned = Absent
    /\ fn_found_after = {}

CallFindAllRefs ==
    /\ fn_pc = "called"
    /\ fn_found' = find_all_refs(fn_fragment)
    /\ fn_pc' = "found"
    /\ UNCHANGED <<mainvars, depsvars, flatvars, fn_fragment, fn_keep, fn_pruned, fn_found_after>>

CallPruneRefs ==
    /\ fn_pc = "found"
    /\ fn_pruned' = prune_refs(fn_fragment, fn_keep)
    /\ fn_pc' = "pruned"
    /\ UNCHANGED <<mainvars, depsvars, flatvars, fn_fragment, fn_keep, fn_found, fn_found_after>>

CallFindAfterPrune ==
    /\ fn_pc = "pruned"
    /\ fn_found_after' = find_all_refs(fn_pruned)
    /\ fn_pc' = "checked"
    /\ UNCHANGED <<mainvars, depsvars, flatvars, fn_fragment, fn_keep, fn_found, fn_pruned>>

FnNext ==
    \/ CallFindAllRefs
    \/ CallPruneRefs
    \/ CallFindAfterPrune

SpecFn == FnInit /\ [][FnNext]_vars

\* character strings of the scanners
PNG == <<".", "p", "n", "g">>

JPG == <<".", "j", "p", "g">>

JPEG == <<".", "j", "p", "e", "g">>

GIF == <<".", "g", "i", "f">>

SVG == <<".", "s", "v", "g">>

WEBP == <<".", "w", "e", "b", "p">>

JS == <<".", "j", "s">>

JSX == <<".", "j", "s", "x">>

TS == <<".", "t", "s">>

TSX == <<".", "t", "s", "x">>

CSS == <<".", "c", "s", "s">>

SCSS == <<".", "s", "c", "s", "s">>

SASS == <<".", "s", "a", "s", "s">>

DOT_MODULE == <<".", "m", "o", "d", "u", "l", "e">>

MODULE_SCSS == <<".", "m", "o", "d", "u", "l", "e", ".", "s", "c", "s", "s">>

INDEX == <<"i", "n", "d", "e", "x">>

ALL_STR == <<"a", "l", "l">>

JAVA == <<".", "j", "a", "v", "a">>

(***************************************************************************)
(* os.path, str and fnmatch as the dependency scanners use them (POSIX).   *)
(* A path is [abs, parts]: whether it starts with "/", and its names       *)
(* between slashes; a name is a sequence of characters.  Two paths are the *)
(* same string exactly when they are the same record.                      *)
(***************************************************************************)
Path(abs, parts) == [abs |-> abs, parts |-> parts]

DOT == <<".">>

DOTDOT == <<".", ".">>

\* the working directory of the process, "/w"
cwd == Path(TRUE, <<<<"w">>>>)

\* os.path.join of two paths
join(a, b) == IF b.abs THEN b ELSE Path(a.abs, a.parts \o b.parts)

RECURSIVE norm_parts(_, _, _)
norm_parts(parts, acc, abs) ==
    IF parts = <<>> THEN acc
    ELSE LET comp == Head(parts)
             rest == Tail(parts)
         IN  IF comp = DOT THEN norm_parts(rest, acc, abs)
             ELSE IF comp = DOTDOT
             THEN IF acc # <<>> /\ acc[Len(acc)] # DOTDOT
                  THEN norm_parts(rest, SubSeq(acc, 1, Len(acc) - 1), abs)
                  ELSE IF abs THEN norm_parts(rest, acc, abs)
                  ELSE norm_parts(rest, Append(acc, comp), abs)
             ELSE norm_parts(rest, Append(acc, comp), abs)

\* os.path.normpath
normpath(p) == Path(p.abs, norm_parts(p.parts, <<>>, p.abs))

\* os.path.abspath
abspath(p) == normpath(join(cwd, p))

\* os.path.dirname
dirname(p) == Path(p.abs, SubSeq(p.parts, 1, Len(p.parts) - 1))

\* the length of the longest common prefix of two sequences
common_len(a, b) ==
    Cardinality({i \in 1..Len(a) : i <= Len(b) /\ SubSeq(a, 1, i) = SubSeq(b, 1, i)})

\* os.path.relpath
relpath(p, start) ==
    LET a == abspath(p).parts
        b == abspath(start).parts
        i == common_len(a, b)
    IN  Path(FALSE, [k \in 1..(Len(b) - i) |-> DOTDOT] \o SubSeq(a, i + 1, Len(a)))

\* os.path.isfile on the disk
isfile(disk, p) == abspath(p) \in DOMAIN disk

\* the extension os.path.splitext gives for a name
ext_of(name) ==
    LET dots == {i \in 1..Len(name) : name[i] = "."} IN
    IF dots = {} THEN <<>>
    ELSE LET last == CHOOSE i \in dots : \A j \in dots : j <= i IN
         IF \E j \in 1..(last - 1) : name[j] # "."
         THEN SubSeq(name, last, Len(name))
         ELSE <<>>

\* os.path.splitext(p)[1]
splitext_ext(p) == IF p.parts = <<>> THEN <<>> ELSE ext_of(p.parts[Len(p.parts)])

\* str.endswith
endswith(str, suf) ==
    /\ Len(str) >= Len(suf)
    /\ SubSeq(str, Len(str) - Len(suf) + 1, Len(str)) = suf

\* sub in str
contains(str, sub) ==
    \E i \in 1..(Len(str) - Len(sub) + 1) : SubSeq(str, i, i + Len(sub) - 1) = sub

\* str.lower for the letters that occur
lower_char(c) ==
    IF c = "A" THEN "a" ELSE IF c = "L" THEN "l" ELSE IF c = "P" THEN "p"
    ELSE IF c = "N" THEN "n" ELSE IF c = "G" THEN "g" ELSE c

lower(str) == [i \in DOMAIN str |-> lower_char(str[i])]

\* fnmatch.fnmatch of a relative path against a pattern whose only
\* wildcard, if any, is a final "*" name: "lib/*"
fnmatch(name, pat) ==
    IF pat.parts # <<>> /\ pat.parts[Len(pat.parts)] = <<"*">>
    THEN /\ Len(name.parts) >= Len(pat.parts)
         /\ SubSeq(name.parts, 1, Len(pat.parts) - 1)
              = SubSeq(pat.parts, 1, Len(pat.parts) - 1)
    ELSE name = pat

\* an Optional path
NoPath == [some |-> FALSE, path |-> Path(FALSE, <<>>)]

SomePath(p) == [some |-> TRUE, path |-> p]

\* max_depth after the conversion at the head of the traversal
Unlimited == [limited |-> FALSE, n |-> 0]

Limit(k) == [limited |-> TRUE, n |-> k]

\* a depth setting of the configuration: a string, an integer, or neither
DepthStr(str) == [kind |-> "str", str |-> str, n |-> 0]

DepthInt(k) == [kind |-> "int", str |-> <<>>, n |-> k]

DepthOther == [kind |-> "other", str |-> <<>>, n |-> 0]

(***************************************************************************)
(* js_deps_to_flat_file.py                                                 *)
(***************************************************************************)
IMAGE_EXTENSIONS ==
    {PNG, JPG, JPEG, GIF, SVG, WEBP}

should_ignore(rel, ignore_patterns) ==
    \E i \in DOMAIN ignore_patterns : fnmatch(rel, ignore_patterns[i])

\* chardet's verdict is an attribute of the file; an unreadable file is no
\* text file
is_text_file(disk, filepath) ==
    isfile(disk, filepath) /\ disk[abspath(filepath)].text

\* an import string starts with "." or "/"
is_local_import(imp) ==
    \/ imp.abs
    \/ imp.parts # <<>> /\ imp.parts[1] # <<>> /\ imp.parts[1][1] = "."

is_style_import(imp) ==
    /\ imp.parts # <<>>
    /\ LET last == imp.parts[Len(imp.parts)] IN
       \/ endswith(last, CSS)
       \/ endswith(last, SCSS)
       \/ endswith(last, SASS)
       \/ \E i \in DOMAIN imp.parts : contains(imp.parts[i], MODULE_SCSS)

\* the import strings of the lines of a file are its content on the disk
extract_js_imports(disk, file_path, include_css) ==
    LET imports == IF isfile(disk, file_path)
                   THEN disk[abspath(file_path)].imports
                   ELSE <<>>
        keep(imp) == is_local_import(imp) /\ (include_css \/ ~is_style_import(imp))
    IN  SelectSeq(imports, keep)

\* an entry of possible_extensions: text added to the last name, or a name
\* added after a slash
Suffix(text) == [index |-> FALSE, text |-> text]

Index(text) == [index |-> TRUE, text |-> text]

add_ext(p, e) ==
    IF e.index THEN Path(p.abs, Append(p.parts, e.text))
    ELSE IF p.parts = <<>> THEN p
    ELSE Path(p.abs, [p.parts EXCEPT ![Len(p.parts)] = @ \o e.text])

js_extensions ==
    <<Suffix(<<>>), Suffix(JS), Suffix(JSX), Suffix(TS), Suffix(TSX),
      Index(INDEX \o JS), Index(INDEX \o JSX), Index(INDEX \o TS),
      Index(INDEX \o TSX)>>

style_extensions ==
    <<Suffix(CSS), Suffix(SCSS), Suffix(SASS), Suffix(DOT_MODULE \o CSS),
      Suffix(MODULE_SCSS), Suffix(DOT_MODULE \o SASS), Index(INDEX \o CSS),
      Index(INDEX \o SCSS), Index(INDEX \o SASS)>>

resolve_import_path(disk, current_file, import_path, repo_root, include_css) ==
    LET current_dir == dirname(current_file)
        candidate_base ==
            IF import_path.abs
            THEN join(repo_root, Path(FALSE, import_path.parts))
            ELSE join(current_dir, import_path)
        possible_extensions ==
            js_extensions \o (IF include_css THEN style_extensions ELSE <<>>)
        hits == {i \in DOMAIN possible_extensions :
                    isfile(disk, add_ext(candidate_base, possible_extensions[i]))}
    IN  IF splitext_ext(candidate_base) # <<>> /\ isfile(disk, candidate_base)
        THEN SomePath(abspath(candidate_base))
        ELSE IF hits = {} THEN NoPath
        ELSE LET first == CHOOSE i \in hits : \A j \in hits : i <= j IN
             SomePath(abspath(add_ext(candidate_base, possible_extensions[first])))

skip_non_text_or_images(disk, filepath, include_images) ==
    IF lower(splitext_ext(filepath)) \in IMAGE_EXTENSIONS
    THEN ~include_images
    ELSE ~is_text_file(disk, filepath)

\* lines 212-218 of both scanners
convert_max_depth(max_depth) ==
    IF max_depth.kind = "str" /\ lower(max_depth.str) = ALL_STR THEN Unlimited
    ELSE IF max_depth.kind = "int" THEN Limit(max_depth.n)
    ELSE Unlimited

reached_max_depth_late(max_depth, cur_depth) ==
    max_depth.limited /\ cur_depth > max_depth.n

\* "max_depth is not None and cur_depth >= max_depth"
reached_max_depth(max_depth, cur_depth) ==
    max_depth.limited /\ cur_depth >= max_depth.n

(***************************************************************************)
(* The JavaScript scanner: main() from the start files on, and             *)
(* traverse_js_deps, one action per outcome of a turn of its loop.         *)
(***************************************************************************)
MaxDepth == 2

JsRoot == Path(TRUE, <<<<"w">>, <<"r">>>>)

F_a == Path(TRUE, <<<<"w">>, <<"r">>, <<"a", ".", "j", "s">>>>)

F_b == Path(TRUE, <<<<"w">>, <<"r">>, <<"b", ".", "j", "s">>>>)

F_c == Path(TRUE, <<<<"w">>, <<"r">>, <<"l", "i", "b">>, <<"c", ".", "j", "s">>>>)

F_index == Path(TRUE, <<<<"w">>, <<"r">>, <<"l", "i", "b">>, <<"i", "n", "d", "e", "x", ".", "j", "s">>>>)

F_logo == Path(TRUE, <<<<"w">>, <<"r">>, <<"l", "o", "g", "o", ".", "P", "N", "G">>>>)

F_style == Path(TRUE, <<<<"w">>, <<"r">>, <<"s", ".", "c", "s", "s">>>>)

File(text, imports) == [text |-> text, imports |-> imports]

JsDisk(imports_a, text_b, imports_b, imports_c) ==
    (F_a :> File(TRUE, imports_a)) @@ (F_b :> File(text_b, imports_b))
    @@ (F_c :> File(TRUE, imports_c))
    @@ (F_index :> File(TRUE, <<Path(FALSE, <<<<".">>, <<"c">>>>)>>))
    @@ (F_logo :> File(FALSE, <<>>)) @@ (F_style :> File(TRUE, <<>>))

JsDisks ==
    {JsDisk(ia, tb, ib, ic) :
        ia \in {<<Path(FALSE, <<<<".">>, <<"b">>>>)>>,
                <<Path(FALSE, <<<<".">>, <<"b">>>>),
                  Path(FALSE, <<<<".">>, <<"l", "i", "b">>, <<"c", ".", "j", "s">>>>),
                  Path(FALSE, <<<<"r", "e", "a", "c", "t">>>>)>>,
                <<Path(FALSE, <<<<".">>, <<"l", "i", "b">>>>),
                  Path(FALSE, <<<<".">>, <<"l", "o", "g", "o", ".", "P", "N", "G">>>>),
                  Path(FALSE, <<<<".">>, <<"s", ".", "c", "s", "s">>>>)>>},
        tb \in BOOLEAN,
        ib \in {<<>>, <<Path(FALSE, <<<<".">>, <<"a">>>>)>>, <<Path(TRUE, <<<<"l", "i", "b">>, <<"c">>>>)>>},
        ic \in {<<>>, <<Path(FALSE, <<<<".", ".">>, <<"a", ".", "j", "s">>>>)>>,
                <<Path(FALSE, <<<<".">>, <<"i", "n", "d", "e", "x">>>>),
                  Path(FALSE, <<<<".", ".">>, <<"b", ".", "j", "s">>>>)>>}}

JsConfigs ==
    [repo_root : {JsRoot, Path(FALSE, <<<<"r">>>>)},
     files : {<<Path(FALSE, <<<<"a", ".", "j", "s">>>>)>>,
              <<Path(FALSE, <<<<".">>, <<"b", ".", "j", "s">>>>),
                Path(FALSE, <<<<"a", ".", "j", "s">>>>)>>,
              <<Path(FALSE, <<<<"l", "i", "b">>, <<"c", ".", "j", "s">>>>)>>,
              <<Path(FALSE, <<<<"a", ".", "j", "s">>>>),
                Path(FALSE, <<<<"a", ".", "j", "s">>>>)>>,
              <<Path(FALSE, <<<<"d", ".", "j", "s">>>>)>>,
              <<>>},
     ignore_patterns : {<<>>, <<Path(FALSE, <<<<"b", ".", "j", "s">>>>)>>,
                        <<Path(FALSE, <<<<"l", "i", "b">>, <<"*">>>>)>>},
     depth : {DepthStr(ALL_STR), DepthStr(<<"A", "L", "L">>), DepthOther}
               \cup {DepthInt(k) : k \in 0..MaxDepth},
     include_images : BOOLEAN,
     include_css_imports : BOOLEAN]

JsInit ==
    /\ MainIdle
    /\ FnIdle
    /\ FlatIdle
    /\ t_pc = "js_main"
    /\ t_disk \in JsDisks
    /\ t_config \in JsConfigs
    /\ t_start_files = <<>>
    /\ t_max_depth = Unlimited
    /\ t_visited = {}
    /\ t_queue = <<>>
    /\ t_all_files = <<>>
    /\ t_exit_code = -1

\* lines 354-361: the start files as main() hands them to the traversal
abs_start_files(repo_root, files) ==
    [i \in DOMAIN files |-> join(repo_root, files[i])]

\* main() stops with status 1 on an empty list or a missing start file
JsExit ==
    /\ t_pc = "js_main"
    /\ \/ t_config.files = <<>>
       \/ \E i \in DOMAIN t_config.files :
            ~isfile(t_disk, join(t_config.repo_root, t_config.files[i]))
    /\ t_pc' = "exit"
    /\ t_exit_code' = 1
    /\ UNCHANGED <<mainvars, fnvars, flatvars, t_disk, t_config, t_start_files,
                   t_max_depth, t_visited, t_queue, t_all_files>>

\* main() calls traverse_js_deps, which runs up to its loop
JsStart ==
    /\ t_pc = "js_main"
    /\ t_config.files # <<>>
    /\ \A i \in DOMAIN t_config.files :
         isfile(t_disk, join(t_config.repo_root, t_config.files[i]))
    /\ t_start_files' = abs_start_files(t_config.repo_root, t_config.files)
    /\ t_max_depth' = convert_max_depth(t_config.depth)
    /\ t_visited' = {}
    /\ t_queue' = [i \in DOMAIN t_config.files |-> <<t_start_files'[i], 0>>]
    /\ t_all_files' = <<>>
    /\ t_pc' = "js_loop"
    /\ UNCHANGED <<mainvars, fnvars, flatvars, t_disk, t_config, t_exit_code>>

current_file == Head(t_queue)[1]

cur_depth == Head(t_queue)[2]

current_relpath == relpath(current_file, t_config.repo_root)

JsSkipVisited ==
    /\ t_pc = "js_loop"
    /\ t_queue # <<>>
    /\ current_file \in t_visited
    /\ t_queue' = Tail(t_queue)
    /\ UNCHANGED <<mainvars, fnvars, flatvars, t_pc, t_disk, t_config, t_start_files,
                   t_max_depth, t_visited, t_all_files, t_exit_code>>

JsSkipIgnored ==
    /\ t_pc = "js_loop"
    /\ t_queue # <<>>
    /\ current_file \notin t_visited
    /\ should_ignore(current_relpath, t_config.ignore_patterns)
    /\ t_visited' = t_visited \cup {current_file}
    /\ t_queue' = Tail(t_queue)
    /\ UNCHANGED <<mainvars, fnvars, flatvars, t_pc, t_disk, t_config, t_start_files,
                   t_max_depth, t_all_files, t_exit_code>>

JsSkipUnwanted ==
    /\ t_pc = "js_loop"
    /\ t_queue # <<>>
    /\ current_file \notin t_visited
    /\ ~should_ignore(current_relpath, t_config.ignore_patterns)
    /\ skip_non_text_or_images(t_disk, current_file, t_config.include_images)
    /\ t_visited' = t_visited \cup {current_file}
    /\ t_queue' = Tail(t_queue)
    /\ UNCHANGED <<mainvars, fnvars, flatvars, t_pc, t_disk, t_config, t_start_files,
                   t_max_depth, t_all_files, t_exit_code>>

\* lines 269-276: the entries the imports of a file add to the queue
js_next_level(disk, file, depth, visited, config) ==
    LET local_imports == extract_js_imports(disk, file, config.include_css_imports)
        resolved == [i \in DOMAIN local_imports |->
                        resolve_import_path(disk, file, local_imports[i],
                                            config.repo_root,
                                            config.include_css_imports)]
        wanted(r) == r.some /\ r.path \notin visited
        kept == SelectSeq(resolved, wanted)
    IN  [i \in DOMAIN kept |-> <<kept[i].path, depth + 1>>]

JsKeep ==
    /\ t_pc = "js_loop"
    /\ t_queue # <<>>
    /\ current_file \notin t_visited
    /\ ~should_ignore(current_relpath, t_config.ignore_patterns)
    /\ ~skip_non_text_or_images(t_disk, current_file, t_config.include_images)
    /\ t_visited' = t_visited \cup {current_file}
    /\ t_all_files' = Append(t_all_files, current_file)
    /\ t_queue' =
         IF \/ reached_max_depth(t_max_depth, cur_depth)
            \/ lower(splitext_ext(current_file)) \in IMAGE_EXTENSIONS
         THEN Tail(t_queue)
         ELSE Tail(t_queue) \o js_next_level(t_disk, current_file, cur_depth,
                                             t_visited', t_config)
    /\ UNCHANGED <<mainvars, fnvars, flatvars, t_pc, t_disk, t_config, t_start_files,
                   t_max_depth, t_exit_code>>

JsReturn ==
    /\ t_pc = "js_loop"
    /\ t_queue = <<>>
    /\ t_pc' = "done"
    /\ t_exit_code' = 0
    /\ UNCHANGED <<mainvars, fnvars, flatvars, t_disk, t_config, t_start_files,
                   t_max_depth, t_visited, t_queue, t_all_files>>

JsNext ==
    \/ JsExit
    \/ JsStart
    \/ JsSkipVisited
    \/ JsSkipIgnored
    \/ JsSkipUnwanted
    \/ JsKeep
    \/ JsReturn

SpecJs == JsInit /\ [][JsNext]_vars

(***************************************************************************)
(* Vocabulary of the properties, defined on JSON values and not through    *)
(* the program's own functions                                             *)
(***************************************************************************)
\* the path element of list index i
Idx(i) == [j \in 1..i |-> "#"]

\* every value nested in v (through object values and list elements), with
\* the path that leads to it
RECURSIVE Nodes(_)
Nodes(v) ==
    {<<<<>>, v>>} \cup
    (IF v.tag = "obj"
     THEN UNION {{<<<<k>> \o pn[1], pn[2]>> : pn \in Nodes(v.m[k])} :
                    k \in DOMAIN v.m}
     ELSE IF v.tag = "list"
     THEN UNION {{<<<<Idx(i)>> \o pn[1], pn[2]>> : pn \in Nodes(v.items[i])} :
                    i \in 1..Len(v.items)}
     ELSE {})

HasPath(v, path) == \E pn \in Nodes(v) : pn[1] = path

At(v, path) == (CHOOSE pn \in Nodes(v) : pn[1] = path)[2]

\* a pointer value of the form "#/$defs/<Name>" with a non-empty name
IsLocalRef(p) ==
    /\ p.tag = "str"
    /\ Len(p.s) > Len(prefix)
    /\ \A i \in 1..Len(prefix) : p.s[i] = prefix[i]

TargetOf(p) == [i \in 1..(Len(p.s) - Len(prefix)) |-> p.s[i + Len(prefix)]]

\* the local references inside v: <<path of the object, pointer value>>
RefOccs(v) ==
    {<<pn[1], pn[2].m[REF_KEY]>> :
        pn \in {x \in Nodes(v) : /\ x[2].tag = "obj"
                                 /\ REF_KEY \in DOMAIN x[2].m
                                 /\ IsLocalRef(x[2].m[REF_KEY])}}

Targets(v) == {TargetOf(occ[2]) : occ \in RefOccs(v)}

IsSentinel(p) == p = JStr(REMOVED_REFERENCE)

HasDefs(doc) == doc.tag = "obj" /\ DEFS_KEY \in DOMAIN doc.m

DefsOf(doc) == doc.m[DEFS_KEY].m

InKeys == DOMAIN DefsOf(schema_file)

OutKeys == DOMAIN DefsOf(out_file)

\* the names reachable from the names in S by forward edges of the input
RECURSIVE ForwardClosure(_, _)
ForwardClosure(defs, S) ==
    LET more == S \cup UNION {Targets(defs[d]) : d \in S \cap DOMAIN defs}
    IN  IF more = S THEN S ELSE ForwardClosure(defs, more)

\* the run has written its output and ended normally
Done == pc = "done"

(***************************************************************************)
(* C1..C5                                                                  *)
(***************************************************************************)
\* C1: reachability correctness.  When a run has written its output, a name
\* is a key of the output $defs if and only if it is a key of the input
\* $defs and a path of zero or more forward edges of the input leads from
\* the root to it.
C1_ReachabilityCorrect ==
    Done =>
        OutKeys = {nm \in InKeys :
                     nm \in ForwardClosure(DefsOf(schema_file), {target_def})}

\* a first run ended where a definition two edges away is kept, through a
\* reference nested in lists, and another definition is dropped
C1_Witness ==
    /\ Done
    /\ run = 1
    /\ target_def = A
    /\ {A, B, C} \subseteq InKeys
    /\ DefsOf(schema_file)[A] = Nested(Ptr(B), 2)
    /\ OutKeys = {A, B}

\* C2 as stated: every local reference inside an output definition targets
\* a key of the output $defs or is the sentinel string.
C2_ClosureAsStated ==
    Done =>
        \A d \in OutKeys : \A occ \in RefOccs(DefsOf(out_file)[d]) :
            TargetOf(occ[2]) \in OutKeys \/ IsSentinel(occ[2])

\* C2 amended: every local reference inside an output definition targets a
\* key of the output $defs, or a name that is not a key of the input $defs,
\* or is the sentinel string.
C2_ClosureAmended ==
    Done =>
        \A d \in OutKeys : \A occ \in RefOccs(DefsOf(out_file)[d]) :
            \/ TargetOf(occ[2]) \in OutKeys
            \/ TargetOf(occ[2]) \notin InKeys
            \/ IsSentinel(occ[2])

\* a kept definition refers to a kept one and to a name that was never
\* defined
C2_Witness ==
    /\ Done
    /\ run = 1
    /\ target_def = A
    /\ A \in OutKeys
    /\ DefsOf(out_file)[A] = Two(Ptr(A), Ptr(Z))
    /\ Z \notin InKeys

\* C3: idempotence.  The run on the output of the previous run, with the
\* same root, writes a document equal to its input.
C3_Idempotent ==
    (Done /\ run > 1) => out_file = schema_file

\* the second run has ended on a document in which a kept definition refers
\* to a kept definition and to a name that was never defined
C3_Witness ==
    /\ Done
    /\ run = 2
    /\ OutKeys = {A, B}
    /\ DefsOf(out_file)[A] = Ref(Ptr(B))
    /\ DefsOf(out_file)[B] = Ref(Ptr(Z))

\* C4: passthrough.  The output document (and the document being built
\* while definitions are rewritten) has the top-level keys of the input,
\* and every key other than $defs has the input's value.
C4_Passthrough ==
    /\ pc = "prune" =>
          /\ DOMAIN minimized_schema = DOMAIN schema_file.m
          /\ \A k \in DOMAIN minimized_schema \ {DEFS_KEY} :
                 minimized_schema[k] = schema_file.m[k]
    /\ Done =>
          /\ out_file.tag = "obj"
          /\ DOMAIN out_file.m = DOMAIN schema_file.m
          /\ \A k \in DOMAIN out_file.m \ {DEFS_KEY} :
                 out_file.m[k] = schema_file.m[k]

\* the output keeps a sibling key that refers to a definition that was
\* dropped
C4_Witness ==
    /\ Done
    /\ run = 1
    /\ B \in InKeys \ OutKeys
    /\ PROPS_KEY \in DOMAIN out_file.m
    /\ out_file.m[PROPS_KEY] = Ref(Ptr(B))

OutPointer(d, occ) == At(DefsOf(out_file)[d], occ[1]).m[REF_KEY]

\* the output body of d still has the reference key where the input has occ
OutHasRef(d, occ) ==
    /\ HasPath(DefsOf(out_file)[d], occ[1])
    /\ At(DefsOf(out_file)[d], occ[1]).tag = "obj"
    /\ REF_KEY \in DOMAIN At(DefsOf(out_file)[d], occ[1]).m

\* C6: absent root.  When the root is not a key of the input $defs the run
\* does not fail: the search records exactly the root and queues nothing
\* else, the warning is printed, the output $defs is empty, the output is
\* written once and the run ends with status 0.
C6_AbsentRoot ==
    (HasDefs(schema_file) /\ target_def \notin InKeys) =>
        /\ pc # "exit"
        /\ exit_code # 1
        /\ pc \in {"prune", "done"} =>
              /\ reachable = {target_def}
              /\ queued = <<target_def>>
              /\ new_defs = NoMap
        /\ Done =>
              /\ OutKeys = {}
              /\ writes = 1
              /\ exit_code = 0
              /\ printed = <<"warning", "done">>

\* the run has ended for a root that is no definition but is referenced by
\* one
C6_Witness ==
    /\ Done
    /\ run = 1
    /\ target_def = Z
    /\ {A, B} \subseteq InKeys
    /\ DefsOf(schema_file)[A] = Ref(Ptr(Z))

\* C7 as stated: a name referenced by a kept definition that is not a key
\* of the input $defs is not in the reachable set, and the reference is
\* rewritten to the sentinel string.
C7_Scenario2AsStated ==
    Done =>
        \A d \in OutKeys : \A occ \in RefOccs(DefsOf(schema_file)[d]) :
            TargetOf(occ[2]) \notin InKeys =>
                /\ TargetOf(occ[2]) \notin reachable
                /\ OutHasRef(d, occ)
                /\ IsSentinel(OutPointer(d, occ))

\* C7 amended: a name referenced by a kept definition that is not a key of
\* the input $defs is in the reachable set, is no key of the output $defs,
\* and the reference to it is in the output as it was in the input.
C7_Scenario2Amended ==
    Done =>
        \A d \in OutKeys : \A occ \in RefOccs(DefsOf(schema_file)[d]) :
            TargetOf(occ[2]) \notin InKeys =>
                /\ TargetOf(occ[2]) \in reachable
                /\ TargetOf(occ[2]) \notin OutKeys
                /\ OutHasRef(d, occ)
                /\ OutPointer(d, occ) = occ[2]

\* scenario 2: A refers to B and $defs has no B
C7_Witness ==
    /\ Done
    /\ run = 1
    /\ target_def = A
    /\ InKeys = {A}
    /\ DefsOf(schema_file)[A] = Ref(Ptr(B))
    /\ reachable = {A, B}

\* C8: in a kept definition a reference to a name that was never a key of
\* the input $defs is in the output exactly as it was, and a reference
\* whose pointer differs between input and output is the sentinel string in
\* the output and targeted a key of the input $defs that the output
\* dropped.
C8_NeverDefinedLeftAlone ==
    Done =>
        \A d \in OutKeys : \A occ \in RefOccs(DefsOf(schema_file)[d]) :
            /\ OutHasRef(d, occ)
            /\ TargetOf(occ[2]) \notin InKeys => OutPointer(d, occ) = occ[2]
            /\ OutPointer(d, occ) # occ[2] =>
                  /\ IsSentinel(OutPointer(d, occ))
                  /\ TargetOf(occ[2]) \in InKeys \ OutKeys

\* a definition was dropped, and a kept definition that is not the root
\* refers to a name that was never defined
C8_Witness ==
    /\ Done
    /\ run = 1
    /\ target_def = A
    /\ InKeys = {A, B, C}
    /\ OutKeys = {A, B}
    /\ DefsOf(schema_file)[B] = Ref(Ptr(Z))
    /\ DefsOf(out_file)[B] = Ref(Ptr(Z))

\* two JSON values with the same keys, list lengths and nesting
RECURSIVE SameShape(_, _)
SameShape(u, v) ==
    /\ u.tag = v.tag
    /\ u.tag = "obj" =>
          /\ DOMAIN u.m = DOMAIN v.m
          /\ \A k \in DOMAIN u.m : SameShape(u.m[k], v.m[k])
    /\ u.tag = "list" =>
          /\ Len(u.items) = Len(v.items)
          /\ \A i \in 1..Len(u.items) : SameShape(u.items[i], v.items[i])

\* C9: in the output, every local reference inside a kept definition
\* targets a name of the computed reachable set or is the sentinel string,
\* and every kept body has the keys, list lengths and nesting of its input
\* body.
C9_PrunedOutput ==
    Done =>
        \A d \in OutKeys :
            /\ \A occ \in RefOccs(DefsOf(out_file)[d]) :
                  TargetOf(occ[2]) \in reachable \/ IsSentinel(occ[2])
            /\ SameShape(DefsOf(schema_file)[d], DefsOf(out_file)[d])

\* a kept definition holds, two lists deep, a reference to a name that is
\* reachable but is no key of the output
C9_Witness ==
    /\ Done
    /\ run = 1
    /\ target_def = A
    /\ InKeys = {A, C}
    /\ DefsOf(out_file)[A] = Nested(Ptr(B), 2)
    /\ B \in reachable

\* a local pointer with '/' and more text after a name
IsCompound(p) ==
    /\ IsLocalRef(p)
    /\ \E i \in 2..(Len(TargetOf(p)) - 1) : TargetOf(p)[i] = "/"

EdgesBuilt == pc \in {"search", "bfs", "prune", "done"}

\* C10 as stated: a pointer with further path segments after the name adds
\* no name and no edge, and is not rewritten.
C10_FlatOnlyAsStated ==
    EdgesBuilt =>
        \A d \in InKeys : \A occ \in RefOccs(DefsOf(schema_file)[d]) :
            IsCompound(occ[2]) =>
                /\ <<d, TargetOf(occ[2])>> \notin all_edges
                /\ d \in DOMAIN adjacency => TargetOf(occ[2]) \notin adjacency[d]
                /\ (Done /\ d \in OutKeys) =>
                      (OutHasRef(d, occ) /\ OutPointer(d, occ) = occ[2])

\* C10 amended: a pointer with further path segments after the name is a
\* reference to the name made of all the text after the prefix: that name
\* is extracted, the edge to it exists, it is reachable once its definition
\* is, and the run does not rewrite the pointer.
C10_FlatOnlyAmended ==
    EdgesBuilt =>
        \A d \in InKeys : \A occ \in RefOccs(DefsOf(schema_file)[d]) :
            IsCompound(occ[2]) =>
                /\ <<d, TargetOf(occ[2])>> \in all_edges
                /\ d \in DOMAIN adjacency
                /\ TargetOf(occ[2]) \in adjacency[d]
                /\ (pc \in {"prune", "done"} /\ d \in reachable) =>
                      TargetOf(occ[2]) \in reachable
                /\ (Done /\ d \in OutKeys) =>
                      (OutHasRef(d, occ) /\ OutPointer(d, occ) = occ[2])

\* the run has ended with the root definition holding "#/$defs/A/x"
C10_Witness ==
    /\ Done
    /\ run = 1
    /\ target_def = A
    /\ A \in OutKeys
    /\ DefsOf(schema_file)[A] = Ref(CompoundPtr)
    /\ <<"A", "/", "x">> \in reachable

(***************************************************************************)
(* C11..C13                                                                *)
(***************************************************************************)
\* the edges of the input, by the vocabulary of the properties
InputEdges ==
    UNION {{<<d, x>> : x \in Targets(DefsOf(schema_file)[d])} : d \in InKeys}

\* C11: ordering.  In a run the output file is written at most once; when
\* it has been written the edges are extracted, the queue of the search is
\* empty and no kept definition waits to be rewritten; before the end of
\* the run and in a run that ends with the error exit nothing is written.
C11_WriteLast ==
    /\ writes \in {0, 1}
    /\ (writes = 1 \/ out_file # Absent) =>
          /\ pc = "done"
          /\ writes = 1
          /\ all_edges = InputEdges
          /\ queue = <<>>
          /\ todo = {}
          /\ out_file = JObj(minimized_schema)
          /\ DefsOf(out_file) = new_defs
    /\ pc # "done" => (writes = 0 /\ out_file = Absent)
    /\ pc = "exit" => (exit_code = 1 /\ writes = 0 /\ out_file = Absent)

\* a run has written a document of three kept definitions
C11_Witness ==
    /\ Done
    /\ run = 1
    /\ writes = 1
    /\ OutKeys = {A, B, C}
    /\ all_edges # {}

\* how many times x occurs in the sequence q
Count(x, q) == Cardinality({i \in DOMAIN q : q[i] = x})

NoDuplicates(q) == \A i, j \in DOMAIN q : q[i] = q[j] => i = j

\* C12 as stated: no name is placed on the queue twice in a run.
C12_QueuedOnceAsStated == NoDuplicates(queued)

\* C12 amended: a step of the search places a name on the queue at most
\* once, and only a name that is not in the reachable set; a name that is
\* the target of two names expanded before it is popped is placed on the
\* queue twice.
C12_QueuedWhileNew ==
    [][\A i \in DOMAIN queued' :
          LET x == queued'[i] IN
          Count(x, queued') > Count(x, queued) =>
              /\ Count(x, queued') = Count(x, queued) + 1
              /\ x \notin reachable']_vars

\* A->B, A->C, B->C: C is on the queue twice
C12_Witness ==
    /\ pc = "bfs"
    /\ run = 1
    /\ target_def = A
    /\ InKeys = {A, B, C}
    /\ DefsOf(schema_file)[A] = Two(Ptr(B), Ptr(C))
    /\ DefsOf(schema_file)[B] = Ref(Ptr(C))
    /\ Count(C, queued) = 2
    /\ Count(C, queue) = 2

\* C13: the search ends, and each name of the reachable set was added to
\* it exactly once.
C13_SearchTerminates ==
    /\ (pc = "bfs") ~> (pc = "prune")
    /\ [](/\ NoDuplicates(expanded)
          /\ pc \in {"bfs", "prune", "done"} =>
                {expanded[i] : i \in DOMAIN expanded} = reachable)

\* the search has ended on a cycle A->B->A and a self-loop C->C
C13_Witness ==
    /\ pc = "prune"
    /\ run = 1
    /\ target_def = A
    /\ InKeys = {A, B, C}
    /\ DefsOf(schema_file)[A] = Two(Ptr(B), Ptr(C))
    /\ DefsOf(schema_file)[B] = Ref(Ptr(A))
    /\ DefsOf(schema_file)[C] = Ref(Ptr(C))
    /\ reachable = {A, B, C}
    /\ Len(expanded) = 3

(***************************************************************************)
(* C14..C16: the functions called directly                                 *)
(***************************************************************************)
Paths(v) == {pn[1] : pn \in Nodes(v)}

\* the value stands under the reference key of an object
UnderRefKey(path) == path # <<>> /\ path[Len(path)] = REF_KEY

\* C14: the rewrite rule of prune_refs for any keep set.  The returned
\* value has the positions of the input; at a position under the reference
\* key that holds a local pointer, it holds the sentinel string if the name
\* is not in the keep set and the input's value if it is; objects keep
\* their keys, lists their lengths, and every other string or number is the
\* input's.
C14_RewriteRule ==
    fn_pc \in {"pruned", "checked"} =>
        /\ Paths(fn_pruned) = Paths(fn_fragment)
        /\ \A pn \in Nodes(fn_fragment) :
              LET was == pn[2]
                  now == At(fn_pruned, pn[1])
              IN  /\ now.tag = was.tag
                  /\ was.tag = "obj" => DOMAIN now.m = DOMAIN was.m
                  /\ was.tag = "list" => Len(now.items) = Len(was.items)
                  /\ was.tag \in {"str", "num"} =>
                        IF UnderRefKey(pn[1]) /\ IsLocalRef(was)
                        THEN IF TargetOf(was) \in fn_keep
                             THEN now = was
                             ELSE IsSentinel(now)
                        ELSE now = was

\* the name in the sentinel string
RemovedName == TargetOf(JStr(REMOVED_REFERENCE))

\* C15: the names find_all_refs finds in prune_refs(v, K) are names of K or
\* the name of the sentinel.
C15_PrunerCoversExtractor ==
    fn_pc = "checked" => fn_found_after \subseteq fn_keep \cup {RemovedName}

\* C16: find_all_refs returns exactly the names X for which an object
\* nested at any depth has the reference key with the value prefix + X.
C16_ExtractorExact ==
    fn_pc \in {"found", "pruned", "checked"} => fn_found = Targets(fn_fragment)

\* the extractor has returned for a reference with a sibling reference, for
\* lists holding one reference twice, and a pointer under another key
C16_Witness ==
    /\ fn_pc = "found"
    /\ fn_fragment = JObj((ITEMS_KEY :> JList(<<Ref(Ptr(C)), Ref(Ptr(C))>>))
                          @@ (PROPS_KEY :> Two(Ptr(B), CompoundPtr)))
    /\ fn_found = {B, C, <<"A", "/", "x">>}

(***************************************************************************)
(* C17, C18                                                                *)
(***************************************************************************)
\* C17: the loaded document is not mutated.  From the load to the end of
\* the run the in-memory input document equals the content of the schema
\* file, $defs and every definition body included.
C17_InputNotMutated ==
    pc \in {"check", "search", "bfs", "prune", "done", "exit"} =>
        /\ full_schema = schema_file
        /\ HasDefs(schema_file) =>
              \A d \in InKeys : defs_dict[d] = DefsOf(schema_file)[d]

\* the run has built and written a document with fewer definitions than
\* the document in memory
C17_Witness ==
    /\ Done
    /\ run = 1
    /\ InKeys = {A, B, C}
    /\ OutKeys = {A}
    /\ DOMAIN defs_dict = {A, B, C}
    /\ DefsOf(schema_file)[A] = Ref(Ptr(Z))

\* C18: in the full run the sentinel rewrite never fires: every kept
\* definition body, while being rewritten and in the output, equals its
\* body in the input.
C18_RewriteNeverFires ==
    /\ pc \in {"prune", "done"} =>
          \A d \in DOMAIN new_defs : new_defs[d] = DefsOf(schema_file)[d]
    /\ Done =>
          \A d \in OutKeys : DefsOf(out_file)[d] = DefsOf(schema_file)[d]

\* a definition was dropped, and the kept ones refer to each other through
\* a list and to a name that was never defined
C18_Witness ==
    /\ Done
    /\ run = 1
    /\ target_def = B
    /\ InKeys = {A, B, C}
    /\ OutKeys = {B, C}
    /\ DefsOf(out_file)[B] = Two(Ptr(B), Ptr(C))
    /\ DefsOf(out_file)[C] = Ref(Ptr(Z))


(***************************************************************************)
(* The Java scanner: main() from the start files on, and                   *)
(* traverse_java_deps, one action per outcome of a turn of its loop.       *)
(***************************************************************************)
\* str.strip
Whitespace == {" ", "\t", "\n", "\r"}

RECURSIVE strip(_)
strip(str) ==
    IF str = <<>> THEN str
    ELSE IF Head(str) \in Whitespace THEN strip(Tail(str))
    ELSE IF str[Len(str)] \in Whitespace THEN strip(SubSeq(str, 1, Len(str) - 1))
    ELSE str

\* str.split(".")
RECURSIVE split_dots(_, _)
split_dots(str, word) ==
    IF str = <<>> THEN <<word>>
    ELSE IF Head(str) = "." THEN <<word>> \o split_dots(Tail(str), <<>>)
    ELSE split_dots(Tail(str), Append(word, Head(str)))

import_to_filepath(java_import) ==
    LET parts == split_dots(strip(java_import), <<>>)
        class_name == parts[Len(parts)]
        package_part == SubSeq(parts, 1, Len(parts) - 1)
    IN  IF package_part = <<>> \/ class_name = <<>> THEN NoPath
        ELSE SomePath(join(Path(FALSE, package_part),
                           Path(FALSE, <<class_name \o JAVA>>)))

find_file_in_repo(disk, repo_root, relative_path, java_source_root) ==
    LET prefixed_rel_path == join(java_source_root, relative_path)
        full_path == join(repo_root, prefixed_rel_path)
    IN  IF isfile(disk, full_path) THEN SomePath(full_path) ELSE NoPath

\* the import statements of a file are its content on the disk
extract_package_and_imports(disk, file_path) ==
    IF isfile(disk, file_path) THEN disk[abspath(file_path)].imports ELSE <<>>

J_A == Path(TRUE, <<<<"w">>, <<"r">>, <<"s", "r", "c">>, <<"p">>, <<"A", ".", "j", "a", "v", "a">>>>)

J_B == Path(TRUE, <<<<"w">>, <<"r">>, <<"s", "r", "c">>, <<"p">>, <<"B", ".", "j", "a", "v", "a">>>>)

J_C == Path(TRUE, <<<<"w">>, <<"r">>, <<"s", "r", "c">>, <<"q">>, <<"C", ".", "j", "a", "v", "a">>>>)

J_D == Path(TRUE, <<<<"w">>, <<"r">>, <<"s", "r", "c">>, <<"q">>, <<"D", ".", "j", "a", "v", "a">>>>)

JavaDisk(imports_a, text_b, imports_b, imports_c) ==
    (J_A :> File(TRUE, imports_a)) @@ (J_B :> File(text_b, imports_b))
    @@ (J_C :> File(TRUE, imports_c))
    @@ (J_D :> File(TRUE, <<<<" ", "p", ".", "B">>>>))

JavaDisks ==
    {JavaDisk(ia, tb, ib, ic) :
        ia \in {<<<<"p", ".", "B">>>>,
                <<<<"p", ".", "B">>, <<"q", ".", "C">>>>,
                <<<<"q", ".", "C">>,
                  <<"j", "a", "v", "a", ".", "u", "t", "i", "l", ".", "L", "i", "s", "t">>,
                  <<"A">>>>},
        tb \in BOOLEAN,
        ib \in {<<>>, <<<<"p", ".", "A">>>>, <<<<"q", ".", "C">>>>},
        ic \in {<<>>, <<<<"q", ".", "D">>>>,
                <<<<"p", ".", "A">>, <<"q", ".", "D">>>>}}

JavaConfigs ==
    [repo_root : {JsRoot, Path(FALSE, <<<<"r">>>>)},
     java_source_root : {Path(FALSE, <<<<"s", "r", "c">>>>)},
     files : {<<Path(FALSE, <<<<"s", "r", "c">>, <<"p">>, <<"A", ".", "j", "a", "v", "a">>>>)>>,
              <<Path(FALSE, <<<<"s", "r", "c">>, <<"q">>, <<"C", ".", "j", "a", "v", "a">>>>),
                Path(FALSE, <<<<"s", "r", "c">>, <<"p">>, <<"A", ".", "j", "a", "v", "a">>>>)>>,
              <<Path(FALSE, <<<<"s", "r", "c">>, <<"p">>, <<"B", ".", "j", "a", "v", "a">>>>)>>,
              <<Path(FALSE, <<<<".">>, <<"s", "r", "c">>, <<"p">>, <<"A", ".", "j", "a", "v", "a">>>>)>>,
              <<Path(FALSE, <<<<"s", "r", "c">>, <<"p">>, <<"Z", ".", "j", "a", "v", "a">>>>)>>,
              <<>>},
     ignore_patterns : {<<>>, <<Path(FALSE, <<<<"s", "r", "c">>, <<"p">>, <<"B", ".", "j", "a", "v", "a">>>>)>>,
                        <<Path(FALSE, <<<<"s", "r", "c">>, <<"q">>, <<"*">>>>)>>},
     depth : {DepthStr(ALL_STR), DepthStr(<<"A", "L", "L">>), DepthOther}
               \cup {DepthInt(k) : k \in 0..MaxDepth}]

JavaInit ==
    /\ MainIdle
    /\ FnIdle
    /\ FlatIdle
    /\ t_pc = "java_main"
    /\ t_disk \in JavaDisks
    /\ t_config \in JavaConfigs
    /\ t_start_files = <<>>
    /\ t_max_depth = Unlimited
    /\ t_visited = {}
    /\ t_queue = <<>>
    /\ t_all_files = <<>>
    /\ t_exit_code = -1

JavaExit ==
    /\ t_pc = "java_main"
    /\ \/ t_config.files = <<>>
       \/ \E i \in DOMAIN t_config.files :
            ~isfile(t_disk, join(t_config.repo_root, t_config.files[i]))
    /\ t_pc' = "exit"
    /\ t_exit_code' = 1
    /\ UNCHANGED <<mainvars, fnvars, flatvars, t_disk, t_config, t_start_files,
                   t_max_depth, t_visited, t_queue, t_all_files>>

JavaStart ==
    /\ t_pc = "java_main"
    /\ t_config.files # <<>>
    /\ \A i \in DOMAIN t_config.files :
         isfile(t_disk, join(t_config.repo_root, t_config.files[i]))
    /\ t_start_files' = abs_start_files(t_config.repo_root, t_config.files)
    /\ t_max_depth' = convert_max_depth(t_config.depth)
    /\ t_visited' = {}
    /\ t_queue' = [i \in DOMAIN t_config.files |-> <<t_start_files'[i], 0>>]
    /\ t_all_files' = <<>>
    /\ t_pc' = "java_loop"
    /\ UNCHANGED <<mainvars, fnvars, flatvars, t_disk, t_config, t_exit_code>>

JavaSkipVisited ==
    /\ t_pc = "java_loop"
    /\ t_queue # <<>>
    /\ current_file \in t_visited
    /\ t_queue' = Tail(t_queue)
    /\ UNCHANGED <<mainvars, fnvars, flatvars, t_pc, t_disk, t_config, t_start_files,
                   t_max_depth, t_visited, t_all_files, t_exit_code>>

JavaSkipIgnored ==
    /\ t_pc = "java_loop"
    /\ t_queue # <<>>
    /\ current_file \notin t_visited
    /\ should_ignore(current_relpath, t_config.ignore_patterns)
    /\ t_visited' = t_visited \cup {current_file}
    /\ t_queue' = Tail(t_queue)
    /\ UNCHANGED <<mainvars, fnvars, flatvars, t_pc, t_disk, t_config, t_start_files,
                   t_max_depth, t_all_files, t_exit_code>>

JavaSkipBinary ==
    /\ t_pc = "java_loop"
    /\ t_queue # <<>>
    /\ current_file \notin t_visited
    /\ ~should_ignore(current_relpath, t_config.ignore_patterns)
    /\ ~is_text_file(t_disk, current_file)
    /\ t_visited' = t_visited \cup {current_file}
    /\ t_queue' = Tail(t_queue)
    /\ UNCHANGED <<mainvars, fnvars, flatvars, t_pc, t_disk, t_config, t_start_files,
                   t_max_depth, t_all_files, t_exit_code>>

\* lines 187-193: the entries the imports of a file add to the queue
java_next_level(disk, file, depth, visited, config) ==
    LET imports == extract_package_and_imports(disk, file)
        possible_abs_path(imp) ==
            LET possible_rel_path == import_to_filepath(imp) IN
            IF ~possible_rel_path.some THEN NoPath
            ELSE find_file_in_repo(disk, config.repo_root, possible_rel_path.path,
                                   config.java_source_root)
        resolved == [i \in DOMAIN imports |-> possible_abs_path(imports[i])]
        wanted(r) == r.some /\ r.path \notin visited
        kept == SelectSeq(resolved, wanted)
    IN  [i \in DOMAIN kept |-> <<kept[i].path, depth + 1>>]

JavaKeep ==
    /\ t_pc = "java_loop"
    /\ t_queue # <<>>
    /\ current_file \notin t_visited
    /\ ~should_ignore(current_relpath, t_config.ignore_patterns)
    /\ is_text_file(t_disk, current_file)
    /\ t_visited' = t_visited \cup {current_file}
    /\ t_all_files' = Append(t_all_files, current_file)
    /\ t_queue' =
         IF reached_max_depth(t_max_depth, cur_depth)
         THEN Tail(t_queue)
         ELSE Tail(t_queue) \o java_next_level(t_disk, current_file, cur_depth,
                                               t_visited', t_config)
    /\ UNCHANGED <<mainvars, fnvars, flatvars, t_pc, t_disk, t_config, t_start_files,
                   t_max_depth, t_exit_code>>

JavaReturn ==
    /\ t_pc = "java_loop"
    /\ t_queue = <<>>
    /\ t_pc' = "done"
    /\ t_exit_code' = 0
    /\ UNCHANGED <<mainvars, fnvars, flatvars, t_disk, t_config, t_start_files,
                   t_max_depth, t_visited, t_queue, t_all_files>>

JavaNext ==
    \/ JavaExit
    \/ JavaStart
    \/ JavaSkipVisited
    \/ JavaSkipIgnored
    \/ JavaSkipBinary
    \/ JavaKeep
    \/ JavaReturn

SpecJava == JavaInit /\ [][JavaNext]_vars

(***************************************************************************)
(* Vocabulary of the traversal properties: a file is the place on the disk *)
(* a path names, whatever the spelling of the path.                        *)
(***************************************************************************)
FileOf(p) == abspath(p)

Traversing == t_pc \in {"js_loop", "java_loop", "done"}

Returned == t_pc = "done"

\* C19: traverse_js_deps returns a list of unique files: no file of the
\* repository appears twice in all_files, during or after any traversal,
\* also when a start file (repo root joined with the configured relative
\* path) is reached again through an import resolved to an absolute path,
\* and when imports form a cycle.
C19_UniqueFiles ==
    Traversing =>
        \A i, j \in DOMAIN t_all_files :
            FileOf(t_all_files[i]) = FileOf(t_all_files[j]) => i = j

\* the files of the disk, the ignored ones, and the ones a traversal may
\* list: text files no ignore pattern matches
Ignored(f) ==
    \E i \in DOMAIN t_config.ignore_patterns :
        fnmatch(relpath(f, t_config.repo_root), t_config.ignore_patterns[i])

Eligible == {f \in DOMAIN t_disk : t_disk[f].text /\ ~Ignored(f)}

\* the dotted name of a sequence of names: <<p, A.java>> is "p.A.java"
RECURSIVE Dotted(_)
Dotted(names) ==
    IF names = <<>> THEN <<>>
    ELSE IF Len(names) = 1 THEN names[1]
    ELSE names[1] \o <<".">> \o Dotted(Tail(names))

\* the names of a Java file below the source root
BelowSourceRoot(f) ==
    relpath(f, join(t_config.repo_root, t_config.java_source_root)).parts

\* file f holds an import statement for the class of file g
JavaImports(f, g) ==
    /\ Len(BelowSourceRoot(g)) >= 2
    /\ \E i \in DOMAIN t_disk[f].imports :
         LET imp == t_disk[f].imports[i]
             blanks == {k \in DOMAIN imp : imp[k] = " "}
             name == [k \in 1..(Len(imp) - Cardinality(blanks)) |->
                         imp[k + Cardinality({b \in blanks : b <= k})]]
         IN  /\ \A b \in blanks : \A k \in 1..b : k \in blanks
             /\ Dotted(BelowSourceRoot(g)) = name \o JAVA

StartFiles ==
    {FileOf(join(t_config.repo_root, t_config.files[i])) : i \in DOMAIN t_config.files}

\* the eligible files with an import chain of at most k steps from a start
\* file, through eligible files only
RECURSIVE Within(_)
Within(k) ==
    IF k = 0 THEN StartFiles \cap Eligible
    ELSE LET near == Within(k - 1) IN
         near \cup {g \in Eligible : \E f \in near : JavaImports(f, g)}

WholeClosure == Within(Cardinality(DOMAIN t_disk))

Listed == {FileOf(t_all_files[i]) : i \in DOMAIN t_all_files}

\* C20: depth-limited, ignore-aware traversal of traverse_java_deps.  With
\* an integer max_depth >= 0 the returned all_files is exactly the set of
\* non-ignored text files whose shortest import chain from a start file,
\* through non-ignored text files only, has length <= max_depth (files at
\* max_depth are listed, their imports not followed; an ignored file is
\* neither listed nor expanded); with max_depth "all" the whole closure is
\* returned.
C20_DepthLimitedClosure ==
    Returned =>
        /\ t_config.depth.kind = "int" => Listed = Within(t_config.depth.n)
        /\ t_config.depth = DepthStr(ALL_STR) => Listed = WholeClosure

C20_Witness ==
    /\ Returned
    /\ t_config.depth = DepthInt(1)
    /\ \E f \in Within(0) : \E g \in DOMAIN t_disk : JavaImports(f, g) /\ Ignored(g)
    /\ Within(1) # Within(0)
    /\ WholeClosure # Within(1)
    /\ Listed = Within(1)


(***************************************************************************)
(* repo_to_flat_file.py: parse_file_ids, called on a selection string.     *)
(***************************************************************************)
MaxArgLen == 5

Digits == {"0", "1", "2", "3", "4", "5", "6", "7", "8", "9"}

digit_value(c) ==
    CASE c = "0" -> 0 [] c = "1" -> 1 [] c = "2" -> 2 [] c = "3" -> 3
      [] c = "4" -> 4 [] c = "5" -> 5 [] c = "6" -> 6 [] c = "7" -> 7
      [] c = "8" -> 8 [] c = "9" -> 9

RECURSIVE decimal_value(_)
decimal_value(digits) ==
    IF digits = <<>> THEN 0
    ELSE 10 * decimal_value(SubSeq(digits, 1, Len(digits) - 1))
           + digit_value(digits[Len(digits)])

\* int(str): blanks around, an optional sign, then digits that single
\* underscores may separate; anything else raises ValueError (ok = FALSE)
ValueError == [ok |-> FALSE, val |-> 0]

int(str) ==
    LET s == strip(str)
        signed == s # <<>> /\ s[1] \in {"+", "-"}
        body == IF signed THEN Tail(s) ELSE s
        is_digit(c) == c \in Digits
        well_formed ==
            /\ body # <<>>
            /\ \A i \in DOMAIN body : body[i] \in Digits \cup {"_"}
            /\ body[1] # "_"
            /\ body[Len(body)] # "_"
            /\ \A i \in 1..(Len(body) - 1) : ~(body[i] = "_" /\ body[i + 1] = "_")
        magnitude == decimal_value(SelectSeq(body, is_digit))
    IN  IF ~well_formed THEN ValueError
        ELSE [ok |-> TRUE,
              val |-> IF signed /\ s[1] = "-" THEN 0 - magnitude ELSE magnitude]

\* str.split(",")
RECURSIVE split_commas(_, _)
split_commas(str, word) ==
    IF str = <<>> THEN <<word>>
    ELSE IF Head(str) = "," THEN <<word>> \o split_commas(Tail(str), <<>>)
    ELSE split_commas(Tail(str), Append(word, Head(str)))

\* range(start, end + 1) as a list
range_list(start, end) == [k \in 1..(end - start + 1) |-> start + k - 1]

\* lines 139-161: what one part of the selection adds to all_ids
ids_of_part(raw) ==
    LET part == strip(raw)
        dashes == {i \in DOMAIN part : part[i] = "-"}
    IN  IF part = <<>> THEN <<>>
        ELSE IF dashes # {}
        THEN LET cut == CHOOSE i \in dashes : \A j \in dashes : i <= j
                 start == int(SubSeq(part, 1, cut - 1))
                 end == int(SubSeq(part, cut + 1, Len(part)))
             IN  IF ~start.ok \/ ~end.ok THEN <<>>
                 ELSE IF start.val > end.val
                 THEN range_list(end.val, start.val)
                 ELSE range_list(start.val, end.val)
        ELSE LET val == int(part) IN
             IF val.ok THEN <<val.val>> ELSE <<>>

RECURSIVE extend_all(_)
extend_all(parts) ==
    IF parts = <<>> THEN <<>>
    ELSE ids_of_part(Head(parts)) \o extend_all(Tail(parts))

parse_file_ids(files_arg) == extend_all(split_commas(files_arg, <<>>))

\* the selection strings tried
ArgChars == {"1", "3", "-", ",", " ", "x"}

RECURSIVE StringsOf(_, _)
StringsOf(chars, n) ==
    IF n = 0 THEN {<<>>}
    ELSE LET shorter == StringsOf(chars, n - 1) IN
         shorter \cup {Append(str, c) : str \in shorter, c \in chars}

Selections == StringsOf(ArgChars, MaxArgLen)

IdsInit ==
    /\ MainIdle
    /\ FnIdle
    /\ DepsIdle
    /\ ScanIdle
    /\ ExtractIdle
    /\ r_pc = "call"
    /\ r_files_arg \in Selections
    /\ r_all_ids = <<>>

CallParseFileIds ==
    /\ r_pc = "call"
    /\ r_all_ids' = parse_file_ids(r_files_arg)
    /\ r_pc' = "returned"
    /\ UNCHANGED <<mainvars, fnvars, depsvars, scanvars, extractvars, r_files_arg>>

IdsNext == CallParseFileIds

SpecIds == IdsInit /\ [][IdsNext]_vars

(***************************************************************************)
(* repo_to_flat_file.py: scan_repository, one action per directory the     *)
(* walk enters and per outcome of a file it hands over.                    *)
(***************************************************************************)
DigitChars == <<"0", "1", "2", "3", "4", "5", "6", "7", "8", "9">>

\* str(n) of an integer
RECURSIVE format_int(_)
format_int(n) ==
    IF n < 0 THEN <<"-">> \o format_int(0 - n)
    ELSE IF n < 10 THEN <<DigitChars[n + 1]>>
    ELSE format_int(n \div 10) \o <<DigitChars[(n % 10) + 1]>>

\* the text of a path
RECURSIVE slashed(_)
slashed(parts) ==
    IF parts = <<>> THEN <<>>
    ELSE IF Len(parts) = 1 THEN parts[1]
    ELSE parts[1] \o <<"/">> \o slashed(Tail(parts))

path_text(p) ==
    IF p.abs THEN <<"/">> \o slashed(p.parts)
    ELSE IF p.parts = <<>> THEN <<".">>
    ELSE slashed(p.parts)

\* f"{current_id}\t{relpath}\n"
index_line(id, rel) == format_int(id) \o <<"\t">> \o path_text(rel) \o <<"\n">>

N_a == <<"a", ".", "t", "x", "t">>

N_b == <<"b", ".", "b", "i", "n">>

N_c == <<"c", ".", "t", "x", "t">>

N_f == <<"f", ".", "t", "x", "t">>

N_g == <<"g", ".", "t", "x", "t">>

N_two_lines == <<"n", "\n", "x">>

N_d == <<"d">>

N_e == <<"e">>

N_skip == <<"s", "k", "i", "p">>

Below(dir, names) == Path(dir.abs, dir.parts \o names)

\* a directory listing, and a file: chardet's verdict, whether a second
\* open of it succeeds, and the tokens its content counts for
Listing(dirs, files) == [dirs |-> dirs, files |-> files]

Content(text, reread) == [text |-> text, reread |-> reread, tokens |-> 2]

ScanDisk(top_dirs, top_files, text_a, reread_a, reread_c, text_g) ==
    [list |-> (JsRoot :> Listing(top_dirs, top_files))
              @@ (Below(JsRoot, <<N_d>>) :> Listing(<<N_e>>, <<N_c>>))
              @@ (Below(JsRoot, <<N_d, N_e>>) :> Listing(<<>>, <<N_f>>))
              @@ (Below(JsRoot, <<N_skip>>) :> Listing(<<>>, <<N_g>>)),
     file |-> (Below(JsRoot, <<N_a>>) :> Content(text_a, reread_a))
              @@ (Below(JsRoot, <<N_b>>) :> Content(FALSE, TRUE))
              @@ (Below(JsRoot, <<N_two_lines>>) :> Content(TRUE, TRUE))
              @@ (Below(JsRoot, <<N_d, N_c>>) :> Content(TRUE, reread_c))
              @@ (Below(JsRoot, <<N_d, N_e, N_f>>) :> Content(TRUE, TRUE))
              @@ (Below(JsRoot, <<N_skip, N_g>>) :> Content(text_g, TRUE))]

ScanDisks ==
    {ScanDisk(td, tf, ta, ra, rc, tg) :
        td \in {<<N_d, N_skip>>, <<N_skip, N_d>>},
        tf \in {<<N_a, N_b>>, <<N_b, N_a>>, <<N_a, N_two_lines, N_b>>,
                <<N_two_lines>>, <<>>},
        ta \in BOOLEAN, ra \in BOOLEAN, rc \in BOOLEAN, tg \in BOOLEAN}

ScanArgs ==
    [repo_path : {JsRoot, Path(FALSE, <<<<"r">>>>)},
     do_token_count : BOOLEAN,
     ignore_patterns : {<<>>, <<Path(FALSE, <<N_skip>>)>>,
                        <<Path(FALSE, <<N_d, <<"*">>>>)>>,
                        <<Path(FALSE, <<N_a>>), Path(FALSE, <<N_d>>)>>}]

ScanInit ==
    /\ MainIdle
    /\ FnIdle
    /\ DepsIdle
    /\ IdsIdle
    /\ ExtractIdle
    /\ s_pc = "call"
    /\ s_disk \in ScanDisks
    /\ s_args \in ScanArgs
    /\ s_pending = <<>>
    /\ s_root = <<>>
    /\ s_files = <<>>
    /\ s_file_map = <<>>
    /\ s_current_id = 0
    /\ s_total_tokens = 0
    /\ s_index = <<>>
    /\ s_outcomes = <<>>

scan_others == <<mainvars, fnvars, depsvars, idsvars, extractvars>>

\* lines 76-85: the locals, the index file opened empty, the walk begun
ScanStart ==
    /\ s_pc = "call"
    /\ s_file_map' = <<>>
    /\ s_current_id' = 1
    /\ s_total_tokens' = 0
    /\ s_index' = <<>>
    /\ s_pending' = <<s_args.repo_path>>
    /\ s_pc' = "walk"
    /\ UNCHANGED <<scan_others, s_disk, s_args, s_root, s_files, s_outcomes>>

\* lines 87-93: the directories of a listing the walk will descend into
kept_dirs(root, dirs, repo_path, ignore_patterns) ==
    LET kept(d) == ~should_ignore(relpath(join(root, Path(FALSE, <<d>>)), repo_path),
                                  ignore_patterns)
    IN  SelectSeq(dirs, kept)

\* os.walk hands over the next directory, top-down
ScanEnterDir ==
    /\ s_pc = "walk"
    /\ s_files = <<>>
    /\ s_pending # <<>>
    /\ LET root == Head(s_pending)
           listing == s_disk.list[abspath(root)]
           dirs == kept_dirs(root, listing.dirs, s_args.repo_path,
                             s_args.ignore_patterns)
       IN  /\ s_root' = root
           /\ s_files' = listing.files
           /\ s_pending' = [i \in DOMAIN dirs |-> join(root, Path(FALSE, <<dirs[i]>>))]
                             \o Tail(s_pending)
    /\ UNCHANGED <<scan_others, s_pc, s_disk, s_args, s_file_map, s_current_id,
                   s_total_tokens, s_index, s_outcomes>>

filepath == join(s_root, Path(FALSE, <<Head(s_files)>>))

file_relpath == relpath(filepath, s_args.repo_path)

ScanSkipIgnored ==
    /\ s_pc = "walk"
    /\ s_files # <<>>
    /\ should_ignore(file_relpath, s_args.ignore_patterns)
    /\ s_files' = Tail(s_files)
    /\ s_outcomes' = Append(s_outcomes, "ignored")
    /\ UNCHANGED <<scan_others, s_pc, s_disk, s_args, s_pending, s_root,
                   s_file_map, s_current_id, s_total_tokens, s_index>>

ScanSkipBinary ==
    /\ s_pc = "walk"
    /\ s_files # <<>>
    /\ ~should_ignore(file_relpath, s_args.ignore_patterns)
    /\ ~s_disk.file[abspath(filepath)].text
    /\ s_files' = Tail(s_files)
    /\ s_outcomes' = Append(s_outcomes, "binary")
    /\ UNCHANGED <<scan_others, s_pc, s_disk, s_args, s_pending, s_root,
                   s_file_map, s_current_id, s_total_tokens, s_index>>

ScanSkipUnread ==
    /\ s_pc = "walk"
    /\ s_files # <<>>
    /\ ~should_ignore(file_relpath, s_args.ignore_patterns)
    /\ s_disk.file[abspath(filepath)].text
    /\ s_args.do_token_count
    /\ ~s_disk.file[abspath(filepath)].reread
    /\ s_files' = Tail(s_files)
    /\ s_outcomes' = Append(s_outcomes, "unread")
    /\ UNCHANGED <<scan_others, s_pc, s_disk, s_args, s_pending, s_root,
                   s_file_map, s_current_id, s_total_tokens, s_index>>

ScanIndex ==
    /\ s_pc = "walk"
    /\ s_files # <<>>
    /\ ~should_ignore(file_relpath, s_args.ignore_patterns)
    /\ s_disk.file[abspath(filepath)].text
    /\ s_args.do_token_count => s_disk.file[abspath(filepath)].reread
    /\ s_total_tokens' = IF s_args.do_token_count
                         THEN s_total_tokens + s_disk.file[abspath(filepath)].tokens
                         ELSE s_total_tokens
    /\ s_file_map' = (s_current_id :> file_relpath) @@ s_file_map
    /\ s_index' = s_index \o index_line(s_current_id, file_relpath)
    /\ s_current_id' = s_current_id + 1
    /\ s_files' = Tail(s_files)
    /\ s_outcomes' = Append(s_outcomes, "indexed")
    /\ UNCHANGED <<scan_others, s_pc, s_disk, s_args, s_pending, s_root>>

ScanReturn ==
    /\ s_pc = "walk"
    /\ s_files = <<>>
    /\ s_pending = <<>>
    /\ s_pc' = "returned"
    /\ UNCHANGED <<scan_others, s_disk, s_args, s_pending, s_root, s_files,
                   s_file_map, s_current_id, s_total_tokens, s_index, s_outcomes>>

ScanNext ==
    \/ ScanStart
    \/ ScanEnterDir
    \/ ScanSkipIgnored
    \/ ScanSkipBinary
    \/ ScanSkipUnread
    \/ ScanIndex
    \/ ScanReturn

SpecScan == ScanInit /\ [][ScanNext]_vars

(***************************************************************************)
(* repo_to_flat_file.py: extract_files, one action per outcome of a        *)
(* selected ID.                                                            *)
(***************************************************************************)
\* the lines a text file is read in, each with its line break
RECURSIVE read_lines(_, _)
read_lines(text, line) ==
    IF text = <<>> THEN (IF line = <<>> THEN <<>> ELSE <<line>>)
    ELSE IF Head(text) = "\n"
    THEN <<Append(line, "\n")>> \o read_lines(Tail(text), <<>>)
    ELSE read_lines(Tail(text), Append(line, Head(text)))

\* lines 176-187: what the lines of the index leave in id_to_path
RECURSIVE index_entries(_, _)
index_entries(lines, id_to_path) ==
    IF lines = <<>> THEN id_to_path
    ELSE LET line == strip(Head(lines))
             tabs == {i \in DOMAIN line : line[i] = "\t"}
             cut == CHOOSE i \in tabs : \A j \in tabs : i <= j
             file_id == int(SubSeq(line, 1, cut - 1))
             rel == SubSeq(line, cut + 1, Len(line))
         IN  IF line = <<>> \/ tabs = {} THEN index_entries(Tail(lines), id_to_path)
             ELSE IF ~file_id.ok THEN index_entries(Tail(lines), id_to_path)
             ELSE index_entries(Tail(lines), (file_id.val :> rel) @@ id_to_path)

\* the path a text spells
RECURSIVE split_slashes(_, _)
split_slashes(text, word) ==
    IF text = <<>> THEN (IF word = <<>> THEN <<>> ELSE <<word>>)
    ELSE IF Head(text) = "/"
    THEN (IF word = <<>> THEN <<>> ELSE <<word>>) \o split_slashes(Tail(text), <<>>)
    ELSE split_slashes(Tail(text), Append(word, Head(text)))

path_of(text) == Path(text # <<>> /\ text[1] = "/", split_slashes(text, <<>>))

\* f"===== FILE ID {file_id} : {relpath} =====\n"
section_header(file_id, rel) ==
    
        <<"=", "=", "=", "=", "=", " ", "F", "I", "L", "E", " ", "I", "D", " ">> \o format_int(file_id) \o <<" ", ":", " ">> \o rel \o 
        <<" ", "=", "=", "=", "=", "=", "\n">>

RECURSIVE joined(_)
joined(texts) == IF texts = <<>> THEN <<>> ELSE Head(texts) \o joined(Tail(texts))

Stored(text, reread, content) == [text |-> text, reread |-> reread, content |-> content]

ExtractDisk(text_a, reread_a, reread_c) ==
    (Below(JsRoot, <<N_a>>) :> Stored(text_a, reread_a, <<"A", "\n">>))
    @@ (Below(JsRoot, <<N_b>>) :> Stored(FALSE, TRUE, <<>>))
    @@ (Below(JsRoot, <<N_d, N_c>>) :> Stored(TRUE, reread_c, <<"C">>))

ExtractDisks ==
    {ExtractDisk(ta, ra, rc) : ta \in BOOLEAN, ra \in BOOLEAN, rc \in BOOLEAN}

\* index files: one a scan wrote; one with a blank line, a line without a
\* tab, a line without a number and an ID named twice; one a scan wrote for
\* a name of two lines; an empty one
Indexes ==
    {index_line(1, Path(FALSE, <<N_a>>)) \o index_line(2, Path(FALSE, <<N_d, N_c>>))
        \o index_line(3, Path(FALSE, <<N_b>>)),
     index_line(1, Path(FALSE, <<N_a>>)) \o <<"\n">> \o N_skip \o <<"\n">>
        \o <<"x", "\t">> \o N_a \o <<"\n">>
        \o index_line(1, Path(FALSE, <<N_d, N_c>>)),
     index_line(1, Path(FALSE, <<N_two_lines>>)) \o index_line(2, Path(FALSE, <<N_a>>)),
     <<>>}

ExtractSelections ==
    {<<>>, <<"x">>, <<"1">>, <<"9">>, <<"1", ",", "2">>, <<"3", "-", "1">>,
     <<"2", ",", "9", ",", "1">>, <<"1", ",", "1">>, <<"1", "-", "-", "1">>,
     <<"3", ",", "x", ",", "2", ",", "2">>}

ExtractArgs ==
    [repo_path : {JsRoot, Path(FALSE, <<<<"r">>>>)},
     index_file : Indexes,
     selection : ExtractSelections]

ExtractInit ==
    /\ MainIdle
    /\ FnIdle
    /\ DepsIdle
    /\ IdsIdle
    /\ ScanIdle
    /\ x_pc = "call"
    /\ x_disk \in ExtractDisks
    /\ x_args \in ExtractArgs
    /\ x_id_to_path = <<>>
    /\ x_selected_ids = <<>>
    /\ x_todo = <<>>
    /\ x_combined_content = <<>>
    /\ x_output = NotWritten
    /\ x_sections = <<>>
    /\ x_prints = <<>>

extract_others == <<mainvars, fnvars, depsvars, idsvars, scanvars>>

\* lines 174-194: no ID parsed from the selection
ExtractNoIds ==
    /\ x_pc = "call"
    /\ parse_file_ids(x_args.selection) = <<>>
    /\ x_id_to_path' = index_entries(read_lines(x_args.index_file, <<>>), <<>>)
    /\ x_selected_ids' = <<>>
    /\ x_prints' = Append(x_prints, "no valid ids")
    /\ x_pc' = "returned"
    /\ UNCHANGED <<extract_others, x_disk, x_args, x_todo, x_combined_content,
                   x_output, x_sections>>

\* lines 174-196: up to the loop over the selected IDs
ExtractStart ==
    /\ x_pc = "call"
    /\ parse_file_ids(x_args.selection) # <<>>
    /\ x_id_to_path' = index_entries(read_lines(x_args.index_file, <<>>), <<>>)
    /\ x_selected_ids' = parse_file_ids(x_args.selection)
    /\ x_todo' = x_selected_ids'
    /\ x_combined_content' = <<>>
    /\ x_pc' = "loop"
    /\ UNCHANGED <<extract_others, x_disk, x_args, x_output, x_sections, x_prints>>

file_id == Head(x_todo)

full_path == join(x_args.repo_path, path_of(x_id_to_path[file_id]))

ExtractSkipMissing ==
    /\ x_pc = "loop"
    /\ x_todo # <<>>
    /\ file_id \notin DOMAIN x_id_to_path
    /\ x_prints' = Append(x_prints, "not found")
    /\ x_todo' = Tail(x_todo)
    /\ UNCHANGED <<extract_others, x_pc, x_disk, x_args, x_id_to_path,
                   x_selected_ids, x_combined_content, x_output, x_sections>>

ExtractSkipNotText ==
    /\ x_pc = "loop"
    /\ x_todo # <<>>
    /\ file_id \in DOMAIN x_id_to_path
    /\ ~is_text_file(x_disk, full_path)
    /\ x_prints' = Append(x_prints, "not text")
    /\ x_todo' = Tail(x_todo)
    /\ UNCHANGED <<extract_others, x_pc, x_disk, x_args, x_id_to_path,
                   x_selected_ids, x_combined_content, x_output, x_sections>>

ExtractSkipUnread ==
    /\ x_pc = "loop"
    /\ x_todo # <<>>
    /\ file_id \in DOMAIN x_id_to_path
    /\ is_text_file(x_disk, full_path)
    /\ ~x_disk[abspath(full_path)].reread
    /\ x_prints' = Append(x_prints, "could not read")
    /\ x_todo' = Tail(x_todo)
    /\ UNCHANGED <<extract_others, x_pc, x_disk, x_args, x_id_to_path,
                   x_selected_ids, x_combined_content, x_output, x_sections>>

ExtractSection_stop ==
    /\ x_pc = "loop"
    /\ x_todo # <<>>
    /\ file_id \in DOMAIN x_id_to_path
    /\ is_text_file(x_disk, full_path)
    /\ x_disk[abspath(full_path)].reread
    /\ x_combined_content' =
         Append(x_combined_content,
                section_header(file_id, x_id_to_path[file_id])
                  \o x_disk[abspath(full_path)].content \o <<"\n">>)
    /\ x_sections' = Append(x_sections, file_id)
    /\ x_todo' = <<>>
    /\ UNCHANGED <<extract_others, x_pc, x_disk, x_args, x_id_to_path,
                   x_selected_ids, x_output, x_prints>>

ExtractSection ==
    /\ x_pc = "loop"
    /\ x_todo # <<>>
    /\ file_id \in DOMAIN x_id_to_path
    /\ is_text_file(x_disk, full_path)
    /\ x_disk[abspath(full_path)].reread
    /\ x_combined_content' =
         Append(x_combined_content,
                section_header(file_id, x_id_to_path[file_id])
                  \o x_disk[abspath(full_path)].content \o <<"\n">>)
    /\ x_sections' = Append(x_sections, file_id)
    /\ x_todo' = Tail(x_todo)
    /\ UNCHANGED <<extract_others, x_pc, x_disk, x_args, x_id_to_path,
                   x_selected_ids, x_output, x_prints>>

\* lines 219-226
ExtractWrite ==
    /\ x_pc = "loop"
    /\ x_todo = <<>>
    /\ x_output' = [written |-> TRUE, text |-> joined(x_combined_content)]
    /\ x_prints' = Append(x_prints, "produced")
    /\ x_pc' = "returned"
    /\ UNCHANGED <<extract_others, x_disk, x_args, x_id_to_path, x_selected_ids,
                   x_todo, x_combined_content, x_sections>>

ExtractNext ==
    \/ ExtractNoIds
    \/ ExtractStart
    \/ ExtractSkipMissing
    \/ ExtractSkipNotText
    \/ ExtractSkipUnread
    \/ ExtractSection
    \/ ExtractWrite

SpecExtract == ExtractInit /\ [][ExtractNext]_vars

(***************************************************************************)
(* Vocabulary of the selection properties: the parts of a selection are    *)
(* the texts between its commas; a number is a non-empty text of digits, a *)
(* range is two numbers with one dash between them, blanks around a number *)
(* do not count.                                                           *)
(***************************************************************************)
CommaAt(str) == {i \in DOMAIN str : str[i] = ","}

\* the text of the k-th part, k from 1
PartText(str, k) ==
    LET bounds == {0} \cup CommaAt(str) \cup {Len(str) + 1}
        Nth(n) == CHOOSE b \in bounds : Cardinality({c \in bounds : c < b}) = n
    IN  SubSeq(str, Nth(k - 1) + 1, Nth(k) - 1)

PartCount(str) == Cardinality(CommaAt(str)) + 1

Trimmed(str) ==
    LET inked == {i \in DOMAIN str : str[i] # " "} IN
    IF inked = {} THEN <<>>
    ELSE SubSeq(str, CHOOSE i \in inked : \A j \in inked : i <= j,
                     CHOOSE i \in inked : \A j \in inked : j <= i)

IsNumber(str) == str # <<>> /\ \A i \in DOMAIN str : str[i] \in Digits

RECURSIVE Pow10(_)
Pow10(n) == IF n = 0 THEN 1 ELSE 10 * Pow10(n - 1)

RECURSIVE SumTo(_, _)
SumTo(str, n) ==
    IF n = 0 THEN 0
    ELSE SumTo(str, n - 1) + digit_value(str[n]) * Pow10(Len(str) - n)

NumberOf(str) == SumTo(str, Len(str))

RangeCuts(str) ==
    {i \in DOMAIN str :
        /\ str[i] = "-"
        /\ IsNumber(Trimmed(SubSeq(str, 1, i - 1)))
        /\ IsNumber(Trimmed(SubSeq(str, i + 1, Len(str))))}

Ascending(lo, hi) == [k \in 1..(hi - lo + 1) |-> lo + k - 1]

\* what a part stands for: one number, the numbers of a range, or nothing
Meaning(raw) ==
    LET text == Trimmed(raw) IN
    IF IsNumber(text) THEN <<NumberOf(text)>>
    ELSE IF RangeCuts(text) # {}
    THEN LET cut == CHOOSE i \in RangeCuts(text) : TRUE
             a == NumberOf(Trimmed(SubSeq(text, 1, cut - 1)))
             b == NumberOf(Trimmed(SubSeq(text, cut + 1, Len(text))))
         IN  IF a <= b THEN Ascending(a, b) ELSE Ascending(b, a)
    ELSE <<>>

RECURSIVE MeaningUpTo(_, _)
MeaningUpTo(str, k) ==
    IF k = 0 THEN <<>>
    ELSE MeaningUpTo(str, k - 1) \o Meaning(PartText(str, k))

\* C21: parse_file_ids returns, in the order of the comma-separated parts,
\* each single integer as one element and each range "a-b" as every integer
\* from min(a,b) to max(a,b); empty and malformed parts contribute nothing
\* and never stop the parsing of the later parts; duplicates are kept.
C21_ParsedIds ==
    r_pc = "returned" =>
        r_all_ids = MeaningUpTo(r_files_arg, PartCount(r_files_arg))

(***************************************************************************)
(* Vocabulary of the index properties: the lines of a text are the texts   *)
(* its line breaks end; a line of the index names an ID before its first   *)
(* tab and a path after it.                                                *)
(***************************************************************************)
BreakAt(text) == {i \in DOMAIN text : text[i] = "\n"}

LineCount(text) ==
    Cardinality(BreakAt(text))
      + (IF text # <<>> /\ text[Len(text)] # "\n" THEN 1 ELSE 0)

\* the k-th line, without its line break
LineText(text, k) ==
    LET bounds == {0} \cup BreakAt(text) \cup {Len(text) + 1}
        Nth(n) == CHOOSE b \in bounds : Cardinality({c \in bounds : c < b}) = n
    IN  SubSeq(text, Nth(k - 1) + 1, Nth(k) - 1)

\* the names of a path text, between its slashes
NamesOf(text) ==
    LET bounds == {0} \cup {i \in DOMAIN text : text[i] = "/"} \cup {Len(text) + 1}
        Nth(n) == CHOOSE b \in bounds : Cardinality({c \in bounds : c < b}) = n
    IN  [k \in 1..(Cardinality(bounds) - 1) |->
            SubSeq(text, Nth(k - 1) + 1, Nth(k) - 1)]

\* line says: ID id, path rel
LineSays(line, id, rel) ==
    \E tab \in DOMAIN line :
        /\ line[tab] = "\t"
        /\ \A i \in 1..(tab - 1) : line[i] # "\t"
        /\ IsNumber(SubSeq(line, 1, tab - 1))
        /\ NumberOf(SubSeq(line, 1, tab - 1)) = id
        /\ NamesOf(SubSeq(line, tab + 1, Len(line))) = rel.parts

Scanning == s_pc \in {"walk", "returned"}

Entries == Cardinality(DOMAIN s_file_map)

Indexed == Cardinality({i \in DOMAIN s_outcomes : s_outcomes[i] = "indexed"})

\* C22: scan_repository assigns file IDs consecutively from 1 with no gaps.
\* After every processed file current_id is the number of entries of
\* file_map plus 1, the keys of file_map are exactly 1..len(file_map), the
\* index file has one line per entry, in the same order, and files that are
\* ignored, not text, or not readable for the token count consume no ID.
C22_ConsecutiveIds ==
    Scanning =>
        /\ s_current_id = Entries + 1
        /\ DOMAIN s_file_map = 1..Entries
        /\ LineCount(s_index) = Entries
        /\ \A id \in 1..Entries :
             LineSays(LineText(s_index, id), id, s_file_map[id])
        /\ Entries = Indexed

(***************************************************************************)
(* Vocabulary of the extraction properties.  The selected IDs are the ones *)
(* parsed from the selection (selected_ids), the index is what was read    *)
(* from the index file (id_to_path).                                       *)
(***************************************************************************)
Extracted == x_pc = "returned"

InIndex(id) == id \in DOMAIN x_id_to_path

FileOfId(id) == FileOf(join(x_args.repo_path, path_of(x_id_to_path[id])))

StillText(id) == FileOfId(id) \in DOMAIN x_disk /\ x_disk[FileOfId(id)].text

CanBeRead(id) == x_disk[FileOfId(id)].reread

Occurrences(ids, Wanted(_)) == Cardinality({i \in DOMAIN ids : Wanted(ids[i])})

Warnings(kind) == Cardinality({i \in DOMAIN x_prints : x_prints[i] = kind})

\* the places of the output text where a section header begins
HeaderMark == <<"=", "=", "=", "=", "=", " ", "F", "I", "L", "E", " ", "I", "D", " ">>

HeadersIn(text) ==
    {i \in DOMAIN text :
        /\ i + Len(HeaderMark) - 1 <= Len(text)
        /\ SubSeq(text, i, i + Len(HeaderMark) - 1) = HeaderMark}

\* C23 as stated: extract_files writes one section per occurrence of each
\* selected ID that is present in the index, in the order of the selection;
\* an ID missing from the index or whose file is no longer text is skipped
\* with a warning and does not keep later IDs from being extracted; when the
\* selection yields no valid IDs the function returns without writing the
\* output file.
C23_SectionsAsStated ==
    Extracted =>
        LET Missing(id) == ~InIndex(id)
            NotText(id) == InIndex(id) /\ ~StillText(id)
            Written(id) == InIndex(id) /\ StillText(id)
        IN  /\ x_selected_ids = <<>> => ~x_output.written
            /\ x_selected_ids # <<>> =>
                 /\ x_output.written
                 /\ x_sections = SelectSeq(x_selected_ids, Written)
                 /\ Cardinality(HeadersIn(x_output.text)) = Len(x_sections)
                 /\ Warnings("not found") = Occurrences(x_selected_ids, Missing)
                 /\ Warnings("not text") = Occurrences(x_selected_ids, NotText)

\* C23 amended: an ID whose file is text but cannot be opened or read is
\* skipped with a warning as well; every other occurrence of an ID of the
\* index gets its section, in the order of the selection.
C23_SectionsAmended ==
    Extracted =>
        LET Missing(id) == ~InIndex(id)
            NotText(id) == InIndex(id) /\ ~StillText(id)
            Unread(id) == InIndex(id) /\ StillText(id) /\ ~CanBeRead(id)
            Written(id) == InIndex(id) /\ StillText(id) /\ CanBeRead(id)
        IN  /\ x_selected_ids = <<>> => ~x_output.written
            /\ x_selected_ids # <<>> =>
                 /\ x_output.written
                 /\ x_sections = SelectSeq(x_selected_ids, Written)
                 /\ Cardinality(HeadersIn(x_output.text)) = Len(x_sections)
                 /\ Warnings("not found") = Occurrences(x_selected_ids, Missing)
                 /\ Warnings("not text") = Occurrences(x_selected_ids, NotText)
                 /\ Warnings("could not read") = Occurrences(x_selected_ids, Unread)

\* the range 3-1 selected: ID 1 cannot be read, ID 2 gets its section, ID 3 is
\* no text
C23_Witness ==
    /\ Extracted
    /\ x_output.written
    /\ x_selected_ids = <<1, 2, 3>>
    /\ x_sections = <<2>>
    /\ Warnings("could not read") = 1
    /\ Warnings("not text") = 1

====
